---------------------------- MODULE Spec2Model ----------------------------
(* Model of the worklog aggregator: the orchestrator loop of worklog.py,   *)
(* the GitHub, GitLab and Jira adapters, and the paginator the GitLab      *)
(* adapter pages through results with.                                     *)
EXTENDS Integers, Sequences, FiniteSets, TLC

(***************************************************************************)
(* Bounds of the model.                                                    *)
(***************************************************************************)
\* largest remote collection the stand-alone paginator is run against
MaxItems == 250

\* number of distinct record identifiers the remote services know
MaxKeys == 2
\* longest list a facet query or a comment fetch answers with
MaxFacetLen == 2
\* last day of the calendar; the report window is [2, MaxDay - 1]
MaxDay == 4
\* most sections a configuration file holds
MaxSections == 2
\* longest comment list the validator is called on
MaxComments == 2

\* per_page = 100 (gitlab.py:126)
per_page == 100

VARIABLES
    coll,        \* paginator: the remote collection the endpoint serves
    page,        \* paginator: local `page`
    all_items,   \* paginator: local `all_items`
    pstatus,     \* paginator: "idle" | "loop" | "returned"
    reqs,        \* every HTTP request issued so far, in order, with its outcome
    plugins,     \* PluginManager.plugins: type name -> the plugin instance's fields
    remote,      \* what the remote services hold while a section runs
    adapter,     \* the plugin whose code is running: "github" | "gitlab" | "jira" | "none"
    category,    \* the category being collected: "issues" | "pull_requests" | "merge_requests" | "none"
    since_date,  \* process(since_date, until_date)
    until_date,
    cpc,         \* position in _get_user_<category>: "idle" | "query" | "validate" | "paging" | "merge" | "normalize" | "notes" | "done"
    fi,          \* index of the facet being queried
    hits,        \* commented-on facet: the search hits being validated
    hi,          \* commented-on facet: index of the hit being validated
    partial,     \* commented-on facet: the dict built so far
    facetRes,    \* the facet result dicts obtained so far, in call order
    all,         \* the merged dict (all_issues / all_prs / all_mrs)
    ni,          \* normalization loop: index into all.values()
    repository,  \* GitLab _format_*: local `repository` while the notes are fetched
    out,         \* the list the category function returns
    apc,         \* position in process: "idle" | "start" | "issues" | "merge_requests" | "pull_requests" | "fetch" | "returned"
    user_id,     \* GitLab process: local `user_id` (0 is None)
    issues,      \* GitLab process: local `issues`
    result_json, \* what process returned to the orchestrator
    sections,    \* config_sections.values(), in file order
    si,          \* main loop: index of the section in progress
    mpc,         \* position in main: "idle" | "loop" | "process" | "done"
    results,     \* main: local `results`
    stdout,      \* what main has printed
    fn_in,       \* a function called on its own: its name and arguments
    fn_out       \* a function called on its own: what it returned

pagVars == <<coll, page, all_items, pstatus>>
envVars == <<plugins, remote, since_date, until_date>>
catVars == <<adapter, category, cpc, fi, hits, hi, partial, facetRes, all, ni,
             repository, out>>
procVars == <<apc, user_id, issues, result_json>>
mainVars == <<sections, si, mpc, results, stdout>>
fnVars == <<fn_in, fn_out>>
vars == <<pagVars, reqs, envVars, catVars, procVars, mainVars, fnVars>>

(***************************************************************************)
(* Helpers.                                                                *)
(***************************************************************************)
Min(a, b) == IF a < b THEN a ELSE b

(***************************************************************************)
(* The facets of each category, in the order the category function calls   *)
(* them (github.py:328-330, 530-533; gitlab.py:319-321, 433-436).          *)
(***************************************************************************)
\* the facets are called last first
FacetsReversed(ad, cat) ==
    IF ad = "github" /\ cat = "issues" THEN <<"closed", "created", "commented">>
    ELSE IF ad = "github" /\ cat = "pull_requests"
         THEN <<"reviewed", "closed", "created", "commented">>
    ELSE IF ad = "gitlab" /\ cat = "issues" THEN <<"closed", "assigned", "created">>
    ELSE IF ad = "gitlab" /\ cat = "merge_requests"
         THEN <<"closed", "reviewed", "assigned", "created">>
    ELSE <<>>

Facets(ad, cat) ==
    IF ad = "github" /\ cat = "issues" THEN <<"commented", "created", "closed">>
    ELSE IF ad = "github" /\ cat = "pull_requests"
         THEN <<"commented", "created", "closed", "reviewed">>
    ELSE IF ad = "gitlab" /\ cat = "issues" THEN <<"created", "assigned", "closed">>
    ELSE IF ad = "gitlab" /\ cat = "merge_requests"
         THEN <<"created", "assigned", "reviewed", "closed">>
    ELSE <<>>

Facet == Facets(adapter, category)[fi]

\* the facet function that is running, if one is
RunningFacet ==
    IF cpc \in {"query", "validate", "paging"} /\ adapter \in {"github", "gitlab"}
    THEN Facet ELSE ""

\* what the paginator is fetching: a facet's list, a record's notes, or the
\* collection it is run against on its own
PageKind ==
    IF cpc = "paging" THEN "list" ELSE IF cpc = "notes" THEN "notes" ELSE "page"

\* the request succeeded and delivered `body`
Answer(body) == [ok |-> TRUE, body |-> body, limited |-> FALSE]

\* the request failed: the connection broke or the status was not 2xx
Failed == [ok |-> FALSE, body |-> <<>>, limited |-> FALSE]

\* the ways a request may fail, `none` standing for the data it did not
\* deliver: where the service limits the request rate the failure is the
\* rate-limit response (GitHub: 403 with "rate limit" in the body,
\* github.py:98-99, 148-149; GitLab: 429, gitlab.py:99-100, 141-142;
\* Jira: 429, jira.py:178-180), elsewhere it is an error
Failures(none) == {[ok |-> FALSE, body |-> none, limited |-> remote.limits]}

\* the plugin instance whose method issues the request
Self == IF adapter \in DOMAIN plugins THEN plugins[adapter] ELSE plugins["gitlab"]

\* one entry of the request log: the endpoint asked, its argument (a page
\* number, a facet index, a record), how the response r came out, the
\* category and facet function that issued it, and the token, user name and
\* base URL of the instance the request was built from
Req(kind, n, r) ==
    [kind |-> kind, n |-> n, ok |-> r.ok, limited |-> r.limited,
     category |-> category, facet |-> RunningFacet,
     token |-> Self.token, username |-> Self.username, url |-> Self.url]

\* the collection 1, 2, ..., n
Items(n) == [i \in 1..n |-> i]

(***************************************************************************)
(* GitLabPlugin._make_paginated_request (gitlab.py:109-162).               *)
(***************************************************************************)
\* what the service answers for page k of collection c with per_page items a page
PageOf(c, k) ==
    IF (k - 1) * per_page >= Len(c) THEN <<>>
    ELSE SubSeq(c, (k - 1) * per_page + 1, Min(k * per_page, Len(c)))

\* gitlab.py:153: a page shorter than per_page is the last one
LastPageOffByOne(items) == Len(items) <= per_page
LastPage(items) == Len(items) < per_page

\* one pass of the while loop whose request succeeds (gitlab.py:134-156)
RequestPage ==
    /\ pstatus = "loop"
    /\ LET items == PageOf(coll, page) IN
       /\ reqs' = Append(reqs, Req(PageKind, page, Answer(items)))
       /\ IF items = <<>>
          THEN /\ pstatus' = "returned"
               /\ UNCHANGED <<all_items, page>>
          ELSE /\ all_items' = all_items \o items
               /\ IF LastPage(items)
                  THEN pstatus' = "returned" /\ UNCHANGED page
                  ELSE pstatus' = "loop" /\ page' = page + 1
    /\ UNCHANGED <<coll, envVars, fnVars, procVars, mainVars, catVars>>

\* the failed request is skipped and the loop goes on to the next page
RequestPageErrorContinues ==
    /\ pstatus = "loop"
    /\ \E r \in Failures(<<>>) : reqs' = Append(reqs, Req(PageKind, page, r))
    /\ page' = page + 1
    /\ UNCHANGED <<coll, all_items, pstatus, envVars, fnVars, procVars, mainVars, catVars>>

\* the failed request makes the paginator forget what it has accumulated
RequestPageErrorDropsItems ==
    /\ pstatus = "loop"
    /\ \E r \in Failures(<<>>) : reqs' = Append(reqs, Req(PageKind, page, r))
    /\ pstatus' = "returned"
    /\ all_items' = <<>>
    /\ UNCHANGED <<coll, page, envVars, fnVars, procVars, mainVars, catVars>>

\* the exception of the failed request is not caught: the loop is left
\* without a return value and the caller never resumes
RequestPageErrorRaises ==
    /\ pstatus = "loop"
    /\ \E r \in Failures(<<>>) : reqs' = Append(reqs, Req(PageKind, page, r))
    /\ pstatus' = "raised"
    /\ UNCHANGED <<coll, page, all_items, envVars, fnVars, procVars, mainVars, catVars>>

\* the failed request is issued again
RequestPageErrorRetries ==
    /\ pstatus = "loop"
    /\ \E r \in Failures(<<>>) : reqs' = Append(reqs, Req(PageKind, page, r))
    /\ UNCHANGED <<coll, page, all_items, pstatus, envVars, fnVars, procVars, mainVars,
                   catVars>>

\* one pass of the while loop whose request raises RequestException
\* (gitlab.py:158-160): break, and line 162 returns what has accumulated
RequestPageError ==
    /\ pstatus = "loop"
    /\ \E r \in Failures(<<>>) : reqs' = Append(reqs, Req(PageKind, page, r))
    /\ pstatus' = "returned"
    /\ UNCHANGED <<coll, page, all_items, envVars, fnVars, procVars, mainVars, catVars>>

(***************************************************************************)
(* Data the services answer with.  A timestamp field is absent, a string   *)
(* that does not parse, or an ISO-8601 string of some day.                 *)
(***************************************************************************)
Keys == 1..MaxKeys
Days == 1..MaxDay

NoTs == [kind |-> "none"]
BadTs == [kind |-> "bad"]
IsoTs(d) == [kind |-> "iso", day |-> d]
Timestamps == {NoTs, BadTs} \cup {IsoTs(d) : d \in Days}

\* the `number` / `iid` the service shows for the record with identifier k
NumberOf(k) == k + 10

\* sequences of at most n elements of S, with pairwise different identifiers
DistinctSeqs(S, n) ==
    UNION {{q \in [1..m -> S] : \A i, j \in 1..m : i # j => q[i].id # q[j].id}
           : m \in 0..n}

(***************************************************************************)
(* Python dicts: insertion-ordered sequences of key/value pairs.           *)
(***************************************************************************)
DictKeys(d) == {d[i].k : i \in 1..Len(d)}
DictValues(d) == [i \in 1..Len(d) |-> d[i].v]
KeyOrder(d) == [i \in 1..Len(d) |-> d[i].k]
DictGet(d, k) == d[CHOOSE i \in 1..Len(d) : d[i].k = k].v

\* the pair is appended whether or not the key is present (a list, not a dict)
DictSetAppend(d, k, v) == Append(d, [k |-> k, v |-> v])

\* d[k] = v: a new key is appended, a present key keeps its place and takes v
DictSet(d, k, v) ==
    IF k \in DictKeys(d)
    THEN [i \in 1..Len(d) |-> IF d[i].k = k THEN [k |-> k, v |-> v] ELSE d[i]]
    ELSE Append(d, [k |-> k, v |-> v])

RECURSIVE KeepFirst(_, _)
\* a merge in which a key already present keeps its value
KeepFirst(d, e) ==
    IF e = <<>> THEN d
    ELSE KeepFirst(IF Head(e).k \in DictKeys(d) THEN d
                   ELSE Append(d, Head(e)), Tail(e))

RECURSIVE SpreadKeepFirst(_)
SpreadKeepFirst(ds) ==
    IF ds = <<>> THEN <<>>
    ELSE KeepFirst(SpreadKeepFirst(SubSeq(ds, 1, Len(ds) - 1)), ds[Len(ds)])

RECURSIVE MoveToEnd(_, _)
\* a merge in which a key already present is taken out and appended anew
MoveToEnd(d, e) ==
    IF e = <<>> THEN d
    ELSE MoveToEnd(Append(SelectSeq(d, LAMBDA x : x.k # Head(e).k), Head(e)), Tail(e))

RECURSIVE DictUpdate(_, _)
\* {**d, **e}
DictUpdate(d, e) ==
    IF e = <<>> THEN d
    ELSE DictUpdate(DictSet(d, Head(e).k, Head(e).v), Tail(e))

RECURSIVE SpreadAsLists(_)
\* the facet results are strung together as lists of pairs
SpreadAsLists(ds) ==
    IF ds = <<>> THEN <<>>
    ELSE SpreadAsLists(SubSeq(ds, 1, Len(ds) - 1)) \o ds[Len(ds)]

RECURSIVE Spread(_)
\* {**ds[1], **ds[2], ...} (github.py:333, 536; gitlab.py:324, 439)
Spread(ds) ==
    IF ds = <<>> THEN <<>>
    ELSE DictUpdate(Spread(SubSeq(ds, 1, Len(ds) - 1)), ds[Len(ds)])

RECURSIVE ById(_)
\* {item.get("id"): item for item in items}, and the loops that fill a dict
\* with d[item.get("id")] = item
ById(items) ==
    IF items = <<>> THEN <<>>
    ELSE DictSet(ById(SubSeq(items, 1, Len(items) - 1)),
                 items[Len(items)].id, items[Len(items)])

(***************************************************************************)
(* _format_date (github.py:646-656, gitlab.py:447-457) and the window      *)
(* test on a parsed timestamp.                                             *)
(***************************************************************************)
FormatDate(ts) ==
    IF ts.kind = "none" THEN NoTs
    ELSE IF ts.kind = "iso" THEN [kind |-> "dmy", day |-> ts.day]
    ELSE ts

\* since <= datetime.fromisoformat(ts).date() <= until; a ValueError is caught
InWindow(ts, since, until) ==
    ts.kind = "iso" /\ since <= ts.day /\ ts.day <= until

\* only the first comment of the list is looked at
FirstCommentOnly(comments, user, since, until) ==
    /\ comments # <<>>
    /\ Head(comments).author = user
    /\ InWindow(Head(comments).created_at, since, until)

RECURSIVE HasUserCommentInTimeframe(_, _, _, _)
\* _has_user_comment_in_timeframe (github.py:165-198, gitlab.py:178-211)
HasUserCommentInTimeframe(comments, user, since, until) ==
    IF comments = <<>> THEN FALSE
    ELSE LET c == Head(comments) IN
         IF c.author # user
         THEN HasUserCommentInTimeframe(Tail(comments), user, since, until)
         ELSE IF c.created_at.kind = "none"
         THEN HasUserCommentInTimeframe(Tail(comments), user, since, until)
         ELSE IF InWindow(c.created_at, since, until) THEN TRUE
         ELSE HasUserCommentInTimeframe(Tail(comments), user, since, until)

(***************************************************************************)
(* Plugin instances and their configuration.  A string the code takes      *)
(* apart (a URL it strips and extends, a token or a file's contents it     *)
(* trims) is a sequence of chunks; an absent configuration value is the    *)
(* empty string.                                                           *)
(***************************************************************************)
NoneStr == <<"None">>
Absent == <<>>

PluginTypes == {"github", "gitlab", "jira"}

\* the files the token value may name: a readable file, and a directory,
\* which exists but cannot be opened for reading
TokenFile == <<"/run/secrets/token">>
TokenDir == <<"/etc">>
PathExists(v) == v \in {TokenFile, TokenDir}
FileContents(v) == <<" ", "filetoken", "\n">>

RECURSIVE Rstrip(_, _)
\* str.rstrip(chars)
Rstrip(q, chars) ==
    IF q # <<>> /\ q[Len(q)] \in chars THEN Rstrip(SubSeq(q, 1, Len(q) - 1), chars)
    ELSE q

RECURSIVE Lstrip(_, _)
Lstrip(q, chars) ==
    IF q # <<>> /\ Head(q) \in chars THEN Lstrip(Tail(q), chars) ELSE q

Whitespace == {" ", "\n", "\t"}
\* str.strip()
Strip(q) == Lstrip(Rstrip(q, Whitespace), Whitespace)

\* the token value is taken as the token whatever it names
ResolveTokenVerbatim(v) == [ok |-> TRUE, token |-> v]

\* the file is read and its contents are the token as they are
ResolveTokenUntrimmed(v) ==
    IF PathExists(v)
    THEN IF v = TokenFile THEN [ok |-> TRUE, token |-> FileContents(v)]
         ELSE [ok |-> FALSE, token |-> Absent]
    ELSE [ok |-> TRUE, token |-> v]

\* the token handling all three parse methods share (github.py:51-66,
\* gitlab.py:56-71, jira.py:125-140): a path that exists is read and trimmed,
\* any exception while reading fails the parse, any other value is the token
ResolveToken(v) ==
    IF PathExists(v)
    THEN IF v = TokenFile THEN [ok |-> TRUE, token |-> Strip(FileContents(v))]
         ELSE [ok |-> FALSE, token |-> Absent]
    ELSE [ok |-> TRUE, token |-> v]

\* __init__ (github.py:12-19, gitlab.py:12-18, jira.py:93-98)
NewPlugin(type) ==
    [config |-> NoneStr, token |-> NoneStr, username |-> NoneStr,
     url |-> IF type = "github" THEN <<"https://api.github.com">>
             ELSE IF type = "gitlab" THEN <<"https://gitlab.com", "/api/v4">>
             ELSE NoneStr,
     owner |-> NoneStr, repo |-> NoneStr, project_id |-> NoneStr]

\* parse that also insists on owner and repo
ParseGitHubNeedsRepo(inst, cfg) ==
    [ok |-> /\ cfg.owner # Absent /\ cfg.repo # Absent
            /\ cfg.token \notin {Absent, TokenDir} /\ cfg.username # Absent,
     inst |-> [inst EXCEPT !.config = cfg]]

\* GitHubPlugin.parse (github.py:24-71)
ParseGitHub(inst, cfg) ==
    LET i1 == [inst EXCEPT !.config = cfg] IN
    IF cfg.token = Absent \/ cfg.username = Absent THEN [ok |-> FALSE, inst |-> i1]
    ELSE LET i2 == [i1 EXCEPT !.username = cfg.username, !.owner = cfg.owner,
                              !.repo = cfg.repo]
             t == ResolveToken(cfg.token)
         IN IF ~t.ok THEN [ok |-> FALSE, inst |-> i2]
            ELSE [ok |-> TRUE,
                  inst |-> [i2 EXCEPT !.token = t.token,
                                      !.url = <<"https://api.github.com">>]]

\* parse that sets the base URL only when the section configures one
ParseGitLabKeepsUrl(inst, cfg) ==
    LET i1 == [inst EXCEPT !.config = cfg] IN
    IF cfg.token = Absent \/ cfg.username = Absent THEN [ok |-> FALSE, inst |-> i1]
    ELSE LET i2 == [i1 EXCEPT !.username = cfg.username,
                              !.project_id = cfg.project_id,
                              !.url = IF cfg.api_base_url # Absent
                                      THEN Rstrip(cfg.api_base_url, {"/"}) \o <<"/api/v4">>
                                      ELSE inst.url]
             t == ResolveToken(cfg.token)
         IN IF ~t.ok THEN [ok |-> FALSE, inst |-> i2]
            ELSE [ok |-> TRUE, inst |-> [i2 EXCEPT !.token = t.token]]

\* GitLabPlugin.parse (gitlab.py:23-73)
ParseGitLab(inst, cfg) ==
    LET i1 == [inst EXCEPT !.config = cfg] IN
    IF cfg.token = Absent \/ cfg.username = Absent THEN [ok |-> FALSE, inst |-> i1]
    ELSE LET i2 == [i1 EXCEPT !.username = cfg.username,
                              !.project_id = cfg.project_id,
                              !.url = IF cfg.api_base_url # Absent
                                      THEN Rstrip(cfg.api_base_url, {"/"}) \o <<"/api/v4">>
                                      ELSE <<"https://gitlab.com", "/api/v4">>]
             t == ResolveToken(cfg.token)
         IN IF ~t.ok THEN [ok |-> FALSE, inst |-> i2]
            ELSE [ok |-> TRUE, inst |-> [i2 EXCEPT !.token = t.token]]

\* parse that does not insist on the url
ParseJiraUrlOptional(inst, cfg) ==
    LET i1 == [inst EXCEPT !.config = cfg] IN
    IF cfg.token = Absent \/ cfg.username = Absent
    THEN [ok |-> FALSE, inst |-> i1]
    ELSE LET i2 == [i1 EXCEPT !.url = Rstrip(cfg.url, {"/"})]
             t == ResolveToken(cfg.token)
         IN IF ~t.ok THEN [ok |-> FALSE, inst |-> i2]
            ELSE [ok |-> TRUE,
                  inst |-> [i2 EXCEPT !.token = t.token, !.username = cfg.username]]

\* parse that stores the url before it looks for the required fields
ParseJiraStoresFirst(inst, cfg) ==
    LET i1 == [inst EXCEPT !.config = cfg, !.url = Rstrip(cfg.url, {"/"})] IN
    IF cfg.url = Absent \/ cfg.token = Absent \/ cfg.username = Absent
    THEN [ok |-> FALSE, inst |-> i1]
    ELSE LET t == ResolveToken(cfg.token)
         IN IF ~t.ok THEN [ok |-> FALSE, inst |-> i1]
            ELSE [ok |-> TRUE,
                  inst |-> [i1 EXCEPT !.token = t.token, !.username = cfg.username]]

\* JiraPlugin.parse (jira.py:103-144)
ParseJira(inst, cfg) ==
    LET i1 == [inst EXCEPT !.config = cfg] IN
    IF cfg.url = Absent \/ cfg.token = Absent \/ cfg.username = Absent
    THEN [ok |-> FALSE, inst |-> i1]
    ELSE LET i2 == [i1 EXCEPT !.url = Rstrip(cfg.url, {"/"})]
             t == ResolveToken(cfg.token)
         IN IF ~t.ok THEN [ok |-> FALSE, inst |-> i2]
            ELSE [ok |-> TRUE,
                  inst |-> [i2 EXCEPT !.token = t.token, !.username = cfg.username]]

\* every configuration is accepted as it is
ParseAlwaysOk(type, inst, cfg) == [ok |-> TRUE, inst |-> inst]
\* plugin.parse(section_data) of the plugin registered for `type`
Parse(type, inst, cfg) ==
    IF type = "github" THEN ParseGitHub(inst, cfg)
    ELSE IF type = "gitlab" THEN ParseGitLab(inst, cfg)
    ELSE ParseJira(inst, cfg)

\* a section of the configuration file (config_parser.py:23-39)
SectionData(type, token, user, url, base) ==
    [type |-> type, token |-> token, username |-> user, url |-> url,
     api_base_url |-> base, owner |-> Absent, repo |-> Absent,
     project_id |-> Absent]

\* the plugins after a successful parse of a section for user "alice"
ConfiguredPlugins ==
    [t \in PluginTypes |->
        Parse(t, NewPlugin(t),
              SectionData(t, <<"tok">>, <<"alice">>,
                          IF t = "jira" THEN <<"https://jira.example">> ELSE Absent,
                          Absent)).inst]

(***************************************************************************)
(* What the services may answer.  `title` stands for the fields a record   *)
(* copies through unchanged (title, state, body, url, author): here it     *)
(* names the facet query that delivered the copy, so that the copies of    *)
(* one record delivered by different facets can be told apart.             *)
(***************************************************************************)
\* whether the service shows record k with a "pull_request" object
IsPullRequest(k) == k % 2 = 1

\* a GitHub search hit; `pr` says whether it carries a "pull_request" object
GhHit(k, f) ==
    [id |-> k, number |-> NumberOf(k), title |-> f, pr |-> IsPullRequest(k),
     closed_at |-> IF f = "closed" THEN IsoTs(2) ELSE NoTs]

\* the hit lists a search of facet f may deliver
HitLists(f, keys) == DistinctSeqs({GhHit(k, f) : k \in keys}, MaxFacetLen)

\* a pull-request search delivers any hit list; an issue search delivers the
\* hits GitHub holds for that facet
SearchResponses(f) ==
    Failures(<<>>) \cup
    (IF category = "issues" THEN {Answer(remote.issues[f])}
     ELSE {Answer(q) : q \in HitLists(f, remote.known)})

IssueFacets == {"commented", "created", "closed"}
NoIssues == [f \in IssueFacets |-> <<>>]
\* what GitHub may hold for the three issue searches
IssueWorlds(keys) ==
    {g \in [IssueFacets -> UNION {HitLists(f, keys) : f \in IssueFacets}] :
        \A f \in IssueFacets : g[f] \in HitLists(f, keys)}

Comment(author, ts) == [author |-> author, created_at |-> ts]

CommentChoices ==
    {Comment(<<"alice">>, IsoTs(2)), Comment(<<"alice">>, IsoTs(1)),
     Comment(<<"bob">>, IsoTs(2))}

\* the comment lists of up to MaxFacetLen - 1 comments
CommentLists == UNION {[1..m -> CommentChoices] : m \in 0..(MaxFacetLen - 1)}

CommentResponses == Failures(<<>>) \cup {Answer(q) : q \in remote.threads}

\* the pull-request detail: the request failed, or it delivered merged_at
DetailResponses ==
    Failures(NoTs) \cup {Answer(ts) : ts \in {NoTs, IsoTs(2)}}

\* a GitLab issue or merge request as the list endpoints deliver it
GlItem(k, f, cat, ts) ==
    [id |-> k, iid |-> NumberOf(k), title |-> f,
     closed_at |-> IF cat = "issues" THEN ts ELSE NoTs,
     merged_at |-> IF cat = "merge_requests" THEN ts ELSE NoTs]

\* only the closed / merged facets read the timestamp of a record
FacetTimestamps(f) ==
    IF f = "closed" THEN remote.stamps ELSE {NoTs}

FacetCollections(f, cat) ==
    DistinctSeqs({GlItem(k, f, cat, ts) : k \in remote.known, ts \in FacetTimestamps(f)},
                 MaxFacetLen)

\* a note as the notes endpoint delivers it; the model gives every note of the
\* service the same text
Note(author, ts, system) ==
    [author |-> author, created_at |-> ts, system |-> system, body |-> <<"text">>]

NoteChoices == {Note(<<"alice">>, IsoTs(2), FALSE), Note(<<"bob">>, BadTs, TRUE)}

\* the note lists of up to MaxFacetLen - 1 notes
NoteLists == UNION {[1..m -> NoteChoices] : m \in 0..(MaxFacetLen - 1)}

NoteCollections == remote.notes

\* the services hold nothing: every query answers with an empty list or fails
QuietRemote ==
    [known |-> {}, stamps |-> {NoTs}, threads |-> {<<>>}, notes |-> {<<>>},
     issues |-> NoIssues, limits |-> FALSE]

\* a record with more notes than one page holds
ManyNotes == [i \in 1..(per_page + 1) |-> Note(<<"alice">>, IsoTs(2), FALSE)]

\* the services hold records of every kind the bounds allow
RichRemote(g) ==
    [known |-> Keys, stamps |-> {NoTs, BadTs, IsoTs(2), IsoTs(MaxDay)},
     threads |-> CommentLists, notes |-> NoteLists \cup {ManyNotes}, issues |-> g,
     limits |-> FALSE]


\* GET /projects/<id>: failed, or a project with its path_with_namespace
ProjectResponses == Failures("") \cup {Answer("group/project")}

\* process has not returned
NoResult == [none |-> TRUE]

\* no function is called on its own
NoCall == [fn |-> "none"]
FnIdle == fn_in = NoCall /\ fn_out = NoCall

\* neither main nor a process call is running
MainIdle ==
    /\ FnIdle
    /\ apc = "idle" /\ user_id = 0 /\ issues = <<>> /\ result_json = NoResult
    /\ sections = <<>> /\ si = 0 /\ mpc = "idle" /\ results = <<>> /\ stdout = <<>>

(***************************************************************************)
(* Steps shared by the category functions.                                 *)
(***************************************************************************)
PagIdle == coll = <<>> /\ page = 0 /\ all_items = <<>> /\ pstatus = "idle"
PagReset == coll' = <<>> /\ page' = 0 /\ all_items' = <<>> /\ pstatus' = "idle"

\* the facet function returned dict d: go on to the next facet, or to the merge
\* a facet that yields nothing ends the querying of the category
FacetDoneStopsAtEmpty(d) ==
    /\ facetRes' = Append(facetRes, d)
    /\ IF fi = Len(Facets(adapter, category)) \/ d = <<>>
       THEN cpc' = "merge" /\ fi' = fi
       ELSE cpc' = "query" /\ fi' = fi + 1

FacetDone(d) ==
    /\ facetRes' = Append(facetRes, d)
    /\ IF fi = Len(Facets(adapter, category))
       THEN cpc' = "merge" /\ fi' = fi
       ELSE cpc' = "query" /\ fi' = fi + 1

\* all_x = {**a, **b, ...} (github.py:333, 536; gitlab.py:324, 439)
Merge ==
    /\ cpc = "merge"
    /\ all' = Spread(facetRes)
    /\ cpc' = "normalize"
    /\ ni' = 1
    /\ out' = <<>>
    /\ UNCHANGED <<pagVars, reqs, envVars, fnVars, procVars, mainVars, adapter, category, fi, hits, hi, partial, facetRes, repository>>

\* the loop over all_x.values() is exhausted: return the list
\* (github.py:377-378, 592-593; gitlab.py:329-330, 444-445)
Return ==
    /\ cpc = "normalize"
    /\ ni > Len(all)
    /\ cpc' = "done"
    /\ facetRes' = <<>>
    /\ UNCHANGED <<pagVars, reqs, envVars, fnVars, procVars, mainVars, adapter, category, fi, hits, hi, partial, all, ni, repository, out>>

(***************************************************************************)
(* GitHub: the facet functions and the normalization loops.                *)
(***************************************************************************)
\* _get_user_created_issues, _get_user_closed_issues (github.py:244-314) and
\* _get_user_created_prs, _get_user_closed_prs, _get_user_reviewed_prs
\* (github.py:422-516): one search; the issue facets skip pull requests
SearchFacet ==
    /\ adapter = "github"
    /\ cpc = "query"
    /\ Facet # "commented"
    /\ \E r \in SearchResponses(Facet) :
          /\ reqs' = Append(reqs, Req("search", fi, r))
          /\ FacetDone(ById(IF category = "issues"
                            THEN SelectSeq(r.body, LAMBDA h : ~h.pr)
                            ELSE r.body))
    /\ UNCHANGED <<pagVars, envVars, fnVars, procVars, mainVars, adapter, category,
                   hits, hi, partial, all, ni, repository, out>>

\* _get_user_commented_issues / _get_user_commented_prs up to the loop
\* (github.py:211-222, 391-402): the search; no hits, an empty dict
SearchCommented ==
    /\ adapter = "github"
    /\ cpc = "query"
    /\ Facet = "commented"
    /\ \E r \in SearchResponses(Facet) :
          /\ reqs' = Append(reqs, Req("search", fi, r))
          /\ IF r.body = <<>>
             THEN FacetDone(<<>>) /\ UNCHANGED <<hits, hi, partial>>
             ELSE /\ hits' = r.body
                  /\ hi' = 1
                  /\ partial' = <<>>
                  /\ cpc' = "validate"
                  /\ UNCHANGED <<fi, facetRes>>
    /\ UNCHANGED <<pagVars, envVars, fnVars, procVars, mainVars, adapter, category,
                   all, ni, repository, out>>

\* a hit is kept whatever its comments say
KeepsHitUnvalidated(comments) == TRUE
\* github.py:230-233, 410-413: the hit is kept only if the fetch delivered
\* comments and the user commented inside the window
KeepsHit(comments) ==
    /\ comments # <<>>
    /\ HasUserCommentInTimeframe(comments, plugins[adapter].username,
                                 since_date, until_date)

\* the body of the loop over the hits once the comments are fetched
\* (github.py:229-237, 409-417): `continue`, or the hit goes into the dict
ValidateStep(d, hit, c) ==
    IF KeepsHit(c.body) THEN DictSet(d, hit.id, hit) ELSE d

RECURSIVE CommentedFacet(_, _)
\* the dict the loop builds from the hits of the search, `fetched` holding
\* the answer to each hit's comment request (github.py:220-242, 400-420)
CommentedFacet(hit_list, fetched) ==
    IF hit_list = <<>> THEN <<>>
    ELSE LET n == Len(hit_list) IN
         ValidateStep(CommentedFacet(SubSeq(hit_list, 1, n - 1),
                                     SubSeq(fetched, 1, n - 1)),
                      hit_list[n], fetched[n])

\* one pass of the loop over the hits (github.py:224-237, 404-417)
ValidateHit ==
    /\ cpc = "validate"
    /\ \E c \in CommentResponses :
          LET hit == hits[hi]
              d == ValidateStep(partial, hit, c)
          IN /\ reqs' = Append(reqs, Req("comments", hit.id, c))
             /\ IF hi = Len(hits)
                THEN /\ FacetDone(d)
                     /\ hits' = <<>> /\ hi' = 0 /\ partial' = <<>>
                ELSE /\ partial' = d
                     /\ hi' = hi + 1
                     /\ UNCHANGED <<cpc, fi, facetRes, hits>>
    /\ UNCHANGED <<pagVars, envVars, fnVars, procVars, mainVars, adapter, category,
                   all, ni, repository, out>>

\* the comments as the record carries them (github.py:351-360, 563-572)
FormatComments(comments_raw) ==
    [i \in 1..Len(comments_raw) |->
        [author |-> comments_raw[i].author,
         created_at |-> FormatDate(comments_raw[i].created_at)]]

\* one pass of the loop of _get_user_issues (github.py:337-375)
NormalizeIssue ==
    /\ adapter = "github"
    /\ category = "issues"
    /\ cpc = "normalize"
    /\ ni <= Len(all)
    /\ \E c \in CommentResponses :
          LET issue == all[ni].v IN
          /\ reqs' = Append(reqs, Req("comments", issue.id, c))
          /\ out' = Append(out, [id |-> issue.number,
                                 title |-> issue.title,
                                 closed_at |-> FormatDate(issue.closed_at),
                                 comments |-> FormatComments(c.body)])
    /\ ni' = ni + 1
    /\ facetRes' = <<>>
    /\ UNCHANGED <<pagVars, envVars, fnVars, procVars, mainVars, adapter, category,
                   cpc, fi, hits, hi, partial, all, repository>>

\* one pass of the loop of _get_user_pull_requests (github.py:540-590)
NormalizePullRequest ==
    /\ adapter = "github"
    /\ category = "pull_requests"
    /\ cpc = "normalize"
    /\ ni <= Len(all)
    /\ \E d \in DetailResponses, c \in CommentResponses :
          LET pr == all[ni].v
              merged_at == IF pr.pr /\ d.ok THEN d.body ELSE NoTs
          IN
          /\ pr.pr \/ d = Answer(NoTs)  \* no "pull_request" url: no request, {}
          /\ reqs' = reqs \o (IF pr.pr THEN <<Req("details", pr.id, d)>> ELSE <<>>)
                          \o <<Req("comments", pr.id, c)>>
          /\ out' = Append(out, [id |-> pr.number,
                                 title |-> pr.title,
                                 closed_at |-> FormatDate(pr.closed_at),
                                 merged_at |-> FormatDate(merged_at),
                                 comments |-> FormatComments(c.body)])
    /\ ni' = ni + 1
    /\ facetRes' = <<>>
    /\ UNCHANGED <<pagVars, envVars, fnVars, procVars, mainVars, adapter, category,
                   cpc, fi, hits, hi, partial, all, repository>>

(***************************************************************************)
(* GitLab: the facet functions and _format_issue / _format_merge_request.  *)
(***************************************************************************)
\* a facet function calls _make_paginated_request (gitlab.py:243, 257, 272,
\* 342, 356, 370, 385)
StartFacet ==
    /\ adapter = "gitlab"
    /\ cpc = "query"
    /\ \E c \in FacetCollections(Facet, category) : coll' = c
    /\ page' = 1
    /\ all_items' = <<>>
    /\ pstatus' = "loop"
    /\ cpc' = "paging"
    /\ UNCHANGED <<reqs, envVars, fnVars, procVars, mainVars, adapter, category, fi,
                   hits, hi, partial, facetRes, all, ni, repository, out>>

\* the timestamp the closed / merged facet filters on (gitlab.py:277, 390)
FilterTimestamp(item) ==
    IF category = "issues" THEN item.closed_at ELSE item.merged_at

\* the facet accepts whatever the query delivered
AcceptsUnfiltered(f, item) == TRUE
\* gitlab.py:276-284, 389-397: the closed / merged facets keep an item only if
\* its timestamp is present, parses and lies in the window
Accepts(f, item) ==
    f = "closed" => InWindow(FilterTimestamp(item), since_date, until_date)

\* the dict a facet function builds from the items the paginated request
\* returned (gitlab.py:245, 259, 274-284, 344, 358, 387-397)
FacetDict(f, items) == ById(SelectSeq(items, LAMBDA it : Accepts(f, it)))

\* the paginated request returned: build the facet's dict
\* (gitlab.py:245, 259, 275-287, 344, 358, 372, 388-400)
EndFacet ==
    /\ adapter = "gitlab"
    /\ cpc = "paging"
    /\ pstatus = "returned"
    /\ FacetDone(FacetDict(Facet, all_items))
    /\ PagReset
    /\ UNCHANGED <<reqs, envVars, fnVars, procVars, mainVars, adapter, category,
                   hits, hi, partial, all, ni, repository, out>>

\* the repository is whatever the lookup delivered
RepositoryOfAnswer(p) == p.body
\* project.get("path_with_namespace", "unknown") if project else "unknown"
\* (gitlab.py:295, 408)
RepositoryOf(p) == IF p.ok /\ p.body # "" THEN p.body ELSE "unknown"

\* _format_issue / _format_merge_request up to the notes request
\* (gitlab.py:291-299, 404-412): the project lookup
FormatStart ==
    /\ adapter = "gitlab"
    /\ cpc = "normalize"
    /\ ni <= Len(all)
    /\ \E p \in ProjectResponses :
          /\ reqs' = Append(reqs, Req("project", all[ni].v.id, p))
          /\ repository' = RepositoryOf(p)
    /\ \E c \in NoteCollections : coll' = c
    /\ page' = 1
    /\ all_items' = <<>>
    /\ pstatus' = "loop"
    /\ cpc' = "notes"
    /\ facetRes' = <<>>
    /\ UNCHANGED <<envVars, fnVars, procVars, mainVars, adapter, category, fi,
                   hits, hi, partial, all, ni, out>>

\* _format_notes (gitlab.py:213-231): the loop skips the system notes and
\* appends one dict for each other note
\* a normalization that keeps the notes of the system too
FormatNotesKeepsSystem(notes_raw) ==
    [i \in 1..Len(notes_raw) |->
        [author |-> notes_raw[i].author,
         created_at |-> FormatDate(notes_raw[i].created_at),
         body |-> notes_raw[i].body]]

FormatNotes(notes_raw) ==
    LET kept == SelectSeq(notes_raw, LAMBDA note : ~note.system)
    IN [i \in 1..Len(kept) |->
           [author |-> kept[i].author,
            created_at |-> FormatDate(kept[i].created_at),
            body |-> kept[i].body]]

\* the rest of _format_issue / _format_merge_request (gitlab.py:300-314,
\* 413-428), and the list comprehension's step to the next record
FormatEnd ==
    /\ adapter = "gitlab"
    /\ cpc = "notes"
    /\ pstatus = "returned"
    /\ LET item == all[ni].v IN
       out' = Append(out, [id |-> item.iid,
                           repository |-> repository,
                           title |-> item.title,
                           closed_at |-> FormatDate(item.closed_at),
                           merged_at |-> FormatDate(item.merged_at),
                           comments |-> FormatNotes(all_items)])
    /\ ni' = ni + 1
    /\ cpc' = "normalize"
    /\ repository' = "none"
    /\ PagReset
    /\ UNCHANGED <<reqs, envVars, fnVars, procVars, mainVars, adapter, category, fi,
                   hits, hi, partial, facetRes, all>>

(***************************************************************************)
(* A category function run on its own, from its first facet to its return. *)
(***************************************************************************)
Categories ==
    {<<"github", "issues">>, <<"github", "pull_requests">>,
     <<"gitlab", "issues">>, <<"gitlab", "merge_requests">>}

InitCat ==
    /\ PagIdle
    /\ reqs = <<>>
    /\ plugins = ConfiguredPlugins
    /\ \E ac \in Categories : adapter = ac[1] /\ category = ac[2]
    /\ IF adapter = "github" /\ category = "issues"
       THEN \E g \in IssueWorlds(Keys) : remote = RichRemote(g)
       ELSE remote = RichRemote(NoIssues)
    /\ since_date = 2
    /\ until_date = MaxDay - 1
    /\ cpc = "query" /\ fi = 1 /\ hits = <<>> /\ hi = 0 /\ partial = <<>>
    /\ facetRes = <<>> /\ all = <<>> /\ ni = 0 /\ repository = "none" /\ out = <<>>
    /\ MainIdle

NextCat ==
    \/ SearchFacet
    \/ SearchCommented
    \/ ValidateHit
    \/ StartFacet
    \/ RequestPage
    \/ RequestPageError
    \/ EndFacet
    \/ Merge
    \/ NormalizeIssue
    \/ NormalizePullRequest
    \/ FormatStart
    \/ FormatEnd
    \/ Return

SpecCat == InitCat /\ [][NextCat]_vars

(***************************************************************************)
(* The paginator run on its own against a collection of 0..MaxItems items. *)
(***************************************************************************)
\* no category function is running
CatIdle ==
    /\ adapter = "none" /\ category = "none"
    /\ cpc = "idle" /\ fi = 0 /\ hits = <<>> /\ hi = 0 /\ partial = <<>>
    /\ facetRes = <<>> /\ all = <<>> /\ ni = 0 /\ repository = "none" /\ out = <<>>

InitPag ==
    /\ coll \in {Items(n) : n \in 0..MaxItems}
    /\ page = 1
    /\ all_items = <<>>
    /\ pstatus = "loop"
    /\ reqs = <<>>
    /\ plugins = [t \in PluginTypes |-> NewPlugin(t)]
    /\ remote = QuietRemote
    /\ since_date = 2
    /\ until_date = MaxDay - 1
    /\ CatIdle
    /\ MainIdle

NextPag == RequestPage \/ RequestPageError

SpecPag == InitPag /\ [][NextPag]_vars

(***************************************************************************)
(* process of the three plugins.                                           *)
(***************************************************************************)
\* json.dumps of a dict of strings, lists, dicts and None, and json.loads of
\* that text: the text is kept apart from the value it encodes
JsonDumps(v) == [json |-> v]
JsonLoads(text) == text.json

\* the locals of a category function are gone once it has returned
CatReset ==
    /\ category' = "none" /\ cpc' = "idle" /\ fi' = 0 /\ facetRes' = <<>>
    /\ all' = <<>> /\ ni' = 0 /\ out' = <<>>

\* the category function `cat` is called
CatCall(cat) ==
    /\ category' = cat /\ cpc' = "query" /\ fi' = 1 /\ facetRes' = <<>>
    /\ all' = <<>> /\ ni' = 0 /\ out' = <<>>

\* GitHubPlugin.process up to the call of _get_user_pull_requests
\* (github.py:658-669); the issues and commits calls are commented out
GitHubStart ==
    /\ adapter = "github"
    /\ apc = "start"
    /\ apc' = "pull_requests"
    /\ CatCall("pull_requests")
    /\ UNCHANGED <<pagVars, reqs, envVars, fnVars, mainVars, adapter, hits, hi, partial,
                   repository, user_id, issues, result_json>>

\* GitHubPlugin.process from the return of _get_user_pull_requests
\* (github.py:672-683)
GitHubReturn ==
    /\ adapter = "github"
    /\ apc = "pull_requests"
    /\ cpc = "done"
    /\ result_json' = JsonDumps([source |-> "github",
                                 user |-> plugins["github"].username,
                                 activity |-> [pull_requests |-> out]])
    /\ apc' = "returned"
    /\ CatReset
    /\ UNCHANGED <<pagVars, reqs, envVars, fnVars, mainVars, adapter, hits, hi, partial,
                   repository, user_id, issues>>

\* GET /users?username=...: failed, no such user, or the user
UserResponses == Failures(<<>>) \cup {Answer(<<>>), Answer(<<[id |-> 7]>>)}

\* the lookup is taken to have found a user whatever it returned
UserIdAlwaysFound(uid) == FALSE
\* `if not user_id` (gitlab.py:470)
NoUserId(uid) == uid = 0

\* process takes a user id for granted and goes straight to the issues
SkipUserId ==
    /\ adapter = "gitlab"
    /\ apc = "start"
    /\ user_id' = 7
    /\ apc' = "issues"
    /\ CatCall("issues")
    /\ UNCHANGED <<pagVars, reqs, envVars, fnVars, mainVars, adapter, hits, hi,
                   partial, repository, issues, result_json>>

\* GitLabPlugin.process up to the call of _get_user_issues (gitlab.py:459-475)
\* with _get_user_id (gitlab.py:164-176)
GetUserId ==
    /\ adapter = "gitlab"
    /\ apc = "start"
    /\ \E users \in UserResponses :
          LET uid == IF users.ok /\ Len(users.body) > 0 THEN users.body[1].id ELSE 0
          IN /\ reqs' = Append(reqs, Req("users", 0, users))
             /\ user_id' = uid
             /\ IF NoUserId(uid)
                THEN /\ result_json' = JsonDumps([error |-> "Could not retrieve user ID"])
                     /\ apc' = "returned"
                     /\ UNCHANGED <<category, cpc, fi, facetRes, all, ni, out>>
                ELSE /\ apc' = "issues"
                     /\ CatCall("issues")
                     /\ UNCHANGED result_json
    /\ UNCHANGED <<pagVars, envVars, fnVars, mainVars, adapter, hits, hi, partial,
                   repository, issues>>

\* _get_user_issues returned; _get_user_merge_requests is called
\* (gitlab.py:475-476)
GitLabIssuesDone ==
    /\ adapter = "gitlab"
    /\ apc = "issues"
    /\ cpc = "done"
    /\ issues' = out
    /\ apc' = "merge_requests"
    /\ CatCall("merge_requests")
    /\ UNCHANGED <<pagVars, reqs, envVars, fnVars, mainVars, adapter, hits, hi, partial,
                   repository, user_id, result_json>>

\* GitLabPlugin.process from the return of _get_user_merge_requests
\* (gitlab.py:478-488)
GitLabReturn ==
    /\ adapter = "gitlab"
    /\ apc = "merge_requests"
    /\ cpc = "done"
    /\ result_json' = JsonDumps([source |-> "gitlab",
                                 user |-> plugins["gitlab"].username,
                                 activity |-> [issues |-> issues,
                                               merge_requests |-> out]])
    /\ apc' = "returned"
    /\ issues' = <<>>
    /\ CatReset
    /\ UNCHANGED <<pagVars, reqs, envVars, fnVars, mainVars, adapter, hits, hi, partial,
                   repository, user_id>>

\* issue_types of _get_issues, in the order of the dict (jira.py:236-239)
issue_types == <<"closed_issues", "commented_issues">>

\* an issue as the Jira search delivers it
JiraIssue(k, f, ts, comments) ==
    [id |-> k, key |-> NumberOf(k), summary |-> f, created |-> ts,
     comments |-> comments]

\* the answers to the search of issue type f
JiraResponses(f) ==
    Failures(<<>>) \cup
    {Answer(q) : q \in DistinctSeqs({JiraIssue(k, f, ts, c) : k \in remote.known,
                                       ts \in remote.stamps, c \in remote.threads},
                                    MaxFacetLen)}

\* the timestamps of Issue.to_dict and Issue.extract_comments
\* (jira.py:31-43, 57-63): "Unknown" unless the timestamp parses
JiraDate(ts) ==
    IF ts.kind = "iso" THEN [kind |-> "dmy", day |-> ts.day]
    ELSE [kind |-> "Unknown"]

\* Issue.extract_comments (jira.py:23-52)
extract_comments(comments) ==
    [i \in 1..Len(comments) |->
        [author |-> comments[i].author,
         created |-> JiraDate(comments[i].created_at)]]

\* Issue.to_dict (jira.py:54-87)
to_dict(issue) ==
    [key |-> issue.key, name |-> issue.summary,
     comments |-> extract_comments(issue.comments),
     created |-> JiraDate(issue.created)]

\* JiraPlugin.process up to the first request (jira.py:257-271)
JiraStart ==
    /\ adapter = "jira"
    /\ apc = "start"
    /\ apc' = "fetch"
    /\ fi' = 1
    /\ facetRes' = <<>>
    /\ UNCHANGED <<pagVars, reqs, envVars, fnVars, mainVars, adapter, category, cpc, hits,
                   hi, partial, all, ni, repository, out, user_id, issues,
                   result_json>>

\* one pass of the loop of _get_issues (jira.py:244-253)
JiraFetch ==
    /\ adapter = "jira"
    /\ apc = "fetch"
    /\ fi <= Len(issue_types)
    /\ \E response \in JiraResponses(issue_types[fi]) :
          /\ reqs' = Append(reqs, Req("search", fi, response))
          /\ facetRes' = Append(facetRes, response.body)
    /\ fi' = fi + 1
    /\ UNCHANGED <<pagVars, envVars, fnVars, mainVars, adapter, category, cpc, hits, hi,
                   partial, all, ni, repository, out, procVars>>

\* the rest of JiraPlugin.process (jira.py:273-286)
JiraReturn ==
    /\ adapter = "jira"
    /\ apc = "fetch"
    /\ fi > Len(issue_types)
    /\ result_json' =
          JsonDumps([source |-> "jira",
                     name |-> plugins["jira"].username,
                     activity |->
                        [closed_issues |->
                            [i \in 1..Len(facetRes[1]) |-> to_dict(facetRes[1][i])],
                         commented_issues |->
                            [i \in 1..Len(facetRes[2]) |-> to_dict(facetRes[2][i])]]])
    /\ apc' = "returned"
    /\ fi' = 0
    /\ facetRes' = <<>>
    /\ UNCHANGED <<pagVars, reqs, envVars, fnVars, mainVars, adapter, category, cpc, hits,
                   hi, partial, all, ni, repository, out, user_id, issues>>

(***************************************************************************)
(* main of worklog.py: the loop over the sections (worklog.py:70-106).     *)
(***************************************************************************)
\* the section the loop is at
Section == sections[si]

\* the run stops at the first section that yields no report
AbortRun(i) == Len(sections) + 1
\* `continue`, and the end of the loop body after a logged error
\* (worklog.py:77-79, 93-100): on to the next section
NextSection(i) == i + 1

\* worklog.py:75-79
MissingType ==
    /\ mpc = "loop"
    /\ si <= Len(sections)
    /\ Section.type = ""
    /\ si' = NextSection(si)
    /\ UNCHANGED <<pagVars, reqs, envVars, fnVars, catVars, procVars, sections, mpc,
                   results, stdout>>

\* worklog.py:82, 97-100: get_plugin returns None
NoPluginFound ==
    /\ mpc = "loop"
    /\ si <= Len(sections)
    /\ Section.type # ""
    /\ Section.type \notin DOMAIN plugins
    /\ si' = NextSection(si)
    /\ UNCHANGED <<pagVars, reqs, envVars, fnVars, catVars, procVars, sections, mpc,
                   results, stdout>>

\* worklog.py:84-87, 93-96: parse returns False
ParseFailed ==
    /\ mpc = "loop"
    /\ si <= Len(sections)
    /\ Section.type \in DOMAIN plugins
    /\ LET parsed == Parse(Section.type, plugins[Section.type], Section) IN
       /\ ~parsed.ok
       /\ plugins' = [plugins EXCEPT ![Section.type] = parsed.inst]
    /\ si' = NextSection(si)
    /\ UNCHANGED <<pagVars, reqs, remote, since_date, until_date, fnVars, catVars,
                   procVars, sections, mpc, results, stdout>>

\* worklog.py:84-90: parse returns True and process is called
CallProcess ==
    /\ mpc = "loop"
    /\ si <= Len(sections)
    /\ Section.type \in DOMAIN plugins
    /\ LET parsed == Parse(Section.type, plugins[Section.type], Section) IN
       /\ parsed.ok
       /\ plugins' = [plugins EXCEPT ![Section.type] = parsed.inst]
    /\ adapter' = Section.type
    /\ apc' = "start"
    /\ mpc' = "process"
    /\ reqs' = <<>>
    /\ UNCHANGED <<pagVars, remote, since_date, until_date, fnVars, category, cpc, fi,
                   hits, hi, partial, facetRes, all, ni, repository, out,
                   user_id, issues, result_json, sections, si, results, stdout>>

\* worklog.py:90-92: process returned; the result is decoded and appended
AppendResult ==
    /\ mpc = "process"
    /\ apc = "returned"
    /\ results' = Append(results, JsonLoads(result_json))
    /\ result_json' = NoResult
    /\ apc' = "idle"
    /\ user_id' = 0
    /\ adapter' = "none"
    /\ mpc' = "loop"
    /\ si' = si + 1
    /\ UNCHANGED <<pagVars, reqs, envVars, fnVars, category, cpc, fi, hits, hi, partial,
                   facetRes, all, ni, repository, out, issues, sections, stdout>>

\* worklog.py:102-106: the loop is over; the results are printed
PrintResults ==
    /\ mpc = "loop"
    /\ si > Len(sections)
    /\ stdout' = <<JsonDumps(results)>>
    /\ mpc' = "done"
    /\ UNCHANGED <<pagVars, reqs, envVars, fnVars, catVars, procVars, sections, si, results>>

\* the sections the configuration file may hold
SectionChoices ==
    {SectionData("", <<"tok">>, <<"alice">>, Absent, Absent),
     SectionData("bitbucket", <<"tok">>, <<"alice">>, Absent, Absent),
     SectionData("github", <<"tok">>, <<"alice">>, Absent, Absent),
     SectionData("github", Absent, <<"alice">>, Absent, Absent),
     SectionData("gitlab", TokenFile, <<"alice">>, Absent, <<"https://gitlab.example", "/">>),
     SectionData("gitlab", <<"tok">>, Absent, Absent, Absent),
     SectionData("jira", <<"tok">>, <<"alice">>, <<"https://jira.example", "/">>, Absent),
     SectionData("jira", TokenDir, <<"alice">>, <<"https://jira.example">>, Absent)}

\* a GitLab section of another user, with another token and no base URL
OtherGitLabSection == SectionData("gitlab", <<"tok2">>, <<"bob">>, Absent, Absent)

\* the files of up to MaxSections sections, and the files of two sections
\* whose second one is the GitLab section of the other user
SectionLists ==
    UNION {[1..n -> SectionChoices] : n \in 0..MaxSections}
        \cup {<<c, OtherGitLabSection>> : c \in SectionChoices}

\* GitHub holds an issue the user created and commented on inside the window
OverlapIssues ==
    [commented |-> <<GhHit(2, "commented")>>, created |-> <<GhHit(2, "created")>>,
     closed |-> <<>>]

\* the services hold one record, with one comment by the user inside the window
SmallRemote ==
    [known |-> {1}, stamps |-> {IsoTs(2)},
     threads |-> {<<Comment(<<"alice">>, IsoTs(2))>>},
     notes |-> {<<Note(<<"alice">>, IsoTs(2), FALSE)>>},
     issues |-> OverlapIssues, limits |-> FALSE]

\* the services hold one record, whose notes fill more than a page, and
\* limit the request rate
LimitingRemote ==
    [known |-> {1}, stamps |-> {IsoTs(2)},
     threads |-> {<<Comment(<<"alice">>, IsoTs(2))>>},
     notes |-> {ManyNotes},
     issues |-> OverlapIssues, limits |-> TRUE]

\* a run over one section meets services that hold a record or none; a run
\* over several sections meets services that hold none
Init ==
    /\ PagIdle
    /\ reqs = <<>>
    /\ plugins = [t \in PluginTypes |-> NewPlugin(t)]
    /\ sections \in SectionLists
    /\ remote \in (IF Len(sections) <= 1
                   THEN {QuietRemote, SmallRemote, LimitingRemote}
                   ELSE {QuietRemote})
    /\ since_date = 2
    /\ until_date = MaxDay - 1
    /\ CatIdle
    /\ FnIdle
    /\ apc = "idle" /\ user_id = 0 /\ issues = <<>> /\ result_json = NoResult
    /\ si = 1 /\ mpc = "loop" /\ results = <<>> /\ stdout = <<>>

Next ==
    \/ MissingType
    \/ NoPluginFound
    \/ ParseFailed
    \/ CallProcess
    \/ GitHubStart
    \/ SearchFacet
    \/ SearchCommented
    \/ ValidateHit
    \/ Merge
    \/ NormalizePullRequest
    \/ Return
    \/ GitHubReturn
    \/ GetUserId
    \/ StartFacet
    \/ RequestPage
    \/ RequestPageError
    \/ EndFacet
    \/ FormatStart
    \/ FormatEnd
    \/ GitLabIssuesDone
    \/ GitLabReturn
    \/ JiraStart
    \/ JiraFetch
    \/ JiraReturn
    \/ AppendResult
    \/ PrintResults

Spec == Init /\ [][Next]_vars

\* main is a single thread that runs until it returns, and every request
\* returns (requests.get blocks until an answer or an exception): a step that
\* can be taken is taken
InitRun == Init /\ remote \in {QuietRemote, SmallRemote}

SpecRun == InitRun /\ [][Next]_vars /\ WF_vars(Next)

(***************************************************************************)
(* The helper functions called on their own, on arguments of every kind    *)
(* the bounds allow.                                                       *)
(***************************************************************************)
\* the value a call returned
Returned(fn, value) == [fn |-> fn, value |-> value]

\* the comments a comment list handed to the validator is made of
ValidatorComments ==
    {Comment(a, ts) : a \in {<<"alice">>, <<"bob">>}, ts \in Timestamps}

\* the calls of _has_user_comment_in_timeframe for the user "alice"
ValidatorCalls ==
    {[fn |-> "_has_user_comment_in_timeframe", comments |-> q, username |-> <<"alice">>] :
        q \in UNION {[1..m -> ValidatorComments] : m \in 0..MaxComments}}

\* _has_user_comment_in_timeframe(comments, username, since_date, until_date)
CallValidator ==
    /\ fn_in.fn = "_has_user_comment_in_timeframe"
    /\ fn_out = NoCall
    /\ fn_out' = Returned(fn_in.fn,
                          HasUserCommentInTimeframe(fn_in.comments, fn_in.username,
                                                    since_date, until_date))
    /\ UNCHANGED <<pagVars, reqs, envVars, catVars, procVars, mainVars, fn_in>>

\* the calls of _format_date
FormatDateCalls == {[fn |-> "_format_date", date_str |-> ts] : ts \in Timestamps}

\* _format_date(date_str) (github.py:646-656, gitlab.py:447-457)
CallFormatDate ==
    /\ fn_in.fn = "_format_date"
    /\ fn_out = NoCall
    /\ fn_out' = Returned(fn_in.fn, FormatDate(fn_in.date_str))
    /\ UNCHANGED <<pagVars, reqs, envVars, catVars, procVars, mainVars, fn_in>>

\* the calls of Issue.to_dict: an issue with at most one comment
ToDictCalls ==
    {[fn |-> "to_dict", issue |-> JiraIssue(1, "closed_issues", ts, c)] :
        ts \in Timestamps,
        c \in UNION {[1..m -> ValidatorComments] : m \in 0..1}}

\* Issue(raw_issue_data).to_dict() (jira.py:54-87)
CallToDict ==
    /\ fn_in.fn = "to_dict"
    /\ fn_out = NoCall
    /\ fn_out' = Returned(fn_in.fn, to_dict(fn_in.issue))
    /\ UNCHANGED <<pagVars, reqs, envVars, catVars, procVars, mainVars, fn_in>>

\* the values a configuration field may have, the absent one first
FieldValues(present) == {Absent} \cup present

\* the plugin of type t after the section of an earlier user parsed
UsedPlugin(t) ==
    Parse(t, NewPlugin(t),
          [type |-> t, token |-> <<"oldtok">>, username |-> <<"bob">>,
           url |-> <<"https://old.example">>,
           api_base_url |-> <<"https://old.example">>,
           owner |-> <<"oldowner">>, repo |-> <<"oldrepo">>,
           project_id |-> <<"7">>]).inst

\* the calls of parse on a fresh plugin and on a plugin an earlier section
\* configured: every combination of present and absent fields, with every
\* kind of token value
ParseCalls ==
    {[fn |-> "parse", inst |-> IF used THEN UsedPlugin(t) ELSE NewPlugin(t),
      config |-> [type |-> t, token |-> tok, username |-> u, url |-> url,
                  api_base_url |-> base, owner |-> o, repo |-> r,
                  project_id |-> pid]] :
        t \in PluginTypes,
        used \in BOOLEAN,
        tok \in FieldValues({<<"tok">>, TokenFile, TokenDir}),
        u \in FieldValues({<<"alice">>}),
        url \in FieldValues({<<"https://jira.example", "/">>}),
        base \in FieldValues({<<"https://gitlab.example", "/">>}),
        o \in FieldValues({<<"owner">>}),
        r \in FieldValues({<<"repo">>}),
        pid \in FieldValues({<<"42">>})}

\* plugin.parse(config) on the plugin registered for the type of config
CallParse ==
    /\ fn_in.fn = "parse"
    /\ fn_out = NoCall
    /\ fn_out' = Returned(fn_in.fn,
                          Parse(fn_in.config.type, fn_in.inst, fn_in.config))
    /\ UNCHANGED <<pagVars, reqs, envVars, catVars, procVars, mainVars, fn_in>>

\* the calls of the closed / merged facet functions of GitLab, by the items
\* the paginated request delivers to them
ClosedFacetCalls ==
    UNION {{[fn |-> "closed_facet", adapter |-> "gitlab", category |-> cat,
             items |-> q] :
               q \in DistinctSeqs({GlItem(k, "closed", cat, ts) :
                                      k \in Keys, ts \in Timestamps}, MaxFacetLen)} :
           cat \in {"issues", "merge_requests"}}

\* _get_user_closed_issues / _get_user_closed_merge_requests from the return
\* of the paginated request (gitlab.py:274-287, 387-400)
CallClosedFacet ==
    /\ fn_in.fn = "closed_facet"
    /\ fn_out = NoCall
    /\ fn_out' = Returned(fn_in.fn, FacetDict("closed", fn_in.items))
    /\ UNCHANGED <<pagVars, reqs, envVars, catVars, procVars, mainVars, fn_in>>

\* the answers to the comment request of a hit: it failed, or it delivered no
\* comment or one
FetchedComments ==
    {Failed, Answer(<<>>)} \cup {Answer(<<c>>) : c \in CommentChoices}

\* the calls of the commented-on facet functions of GitHub, by the hits the
\* search delivers and the answers to the comment requests
CommentedFacetCalls ==
    UNION {{[fn |-> "commented_facet", adapter |-> "github", category |-> cat,
             hits |-> q, fetched |-> c] :
               cat \in {"issues", "pull_requests"},
               c \in [1..Len(q) -> FetchedComments]} :
           q \in HitLists("commented", Keys)}

\* _get_user_commented_issues / _get_user_commented_prs from the return of
\* the search (github.py:220-242, 400-420)
CallCommentedFacet ==
    /\ fn_in.fn = "commented_facet"
    /\ fn_out = NoCall
    /\ fn_out' = Returned(fn_in.fn, CommentedFacet(fn_in.hits, fn_in.fetched))
    /\ UNCHANGED <<pagVars, reqs, envVars, catVars, procVars, mainVars, fn_in>>

\* the notes a note list handed to _format_notes is made of: notes of users
\* and of the system, with timestamps that parse and that do not, and with
\* different texts
RawNotes ==
    {[Note(a, ts, sys) EXCEPT !.body = b] :
        a \in {<<"alice">>, <<"bob">>}, ts \in {IsoTs(2), BadTs},
        sys \in BOOLEAN, b \in {<<"first">>, <<"second">>}}

\* the calls of _format_notes
FormatNotesCalls ==
    {[fn |-> "_format_notes", notes_raw |-> q] :
        q \in UNION {[1..m -> RawNotes] : m \in 0..MaxComments}}

\* _format_notes(notes_raw) (gitlab.py:213-231)
CallFormatNotes ==
    /\ fn_in.fn = "_format_notes"
    /\ fn_out = NoCall
    /\ fn_out' = Returned(fn_in.fn, FormatNotes(fn_in.notes_raw))
    /\ UNCHANGED <<pagVars, reqs, envVars, catVars, procVars, mainVars, fn_in>>

\* the calls that are methods run on a configured instance
MethodCalls == ClosedFacetCalls \cup CommentedFacetCalls

FnCalls ==
    ValidatorCalls \cup FormatDateCalls \cup ToDictCalls \cup ParseCalls
        \cup FormatNotesCalls \cup MethodCalls

InitFn ==
    /\ PagIdle
    /\ reqs = <<>>
    /\ fn_in \in FnCalls
    /\ fn_out = NoCall
    /\ IF fn_in \in MethodCalls
       THEN /\ plugins = ConfiguredPlugins
            /\ adapter = fn_in.adapter /\ category = fn_in.category
       ELSE /\ plugins = [t \in PluginTypes |-> NewPlugin(t)]
            /\ adapter = "none" /\ category = "none"
    /\ remote = QuietRemote
    /\ since_date \in Days
    /\ until_date \in Days
    /\ since_date <= until_date
    /\ cpc = "idle" /\ fi = 0 /\ hits = <<>> /\ hi = 0 /\ partial = <<>>
    /\ facetRes = <<>> /\ all = <<>> /\ ni = 0 /\ repository = "none" /\ out = <<>>
    /\ apc = "idle" /\ user_id = 0 /\ issues = <<>> /\ result_json = NoResult
    /\ sections = <<>> /\ si = 0 /\ mpc = "idle" /\ results = <<>> /\ stdout = <<>>

NextFn ==
    \/ CallValidator
    \/ CallFormatDate
    \/ CallToDict
    \/ CallParse
    \/ CallClosedFacet
    \/ CallCommentedFacet
    \/ CallFormatNotes

SpecFn == InitFn /\ [][NextFn]_vars

(***************************************************************************)
(* Properties of the facet merge.                                          *)
(***************************************************************************)
NumFacets == Len(Facets(adapter, category))

\* the merge has just run: the facet dicts and the merged dict are both at hand
Merged == cpc = "normalize" /\ Len(facetRes) = NumFacets /\ NumFacets > 0

\* the facets (by index) whose result holds key k
FacetsWith(k) == {i \in 1..Len(facetRes) : k \in DictKeys(facetRes[i])}

SetMin(S) == CHOOSE x \in S : \A y \in S : x <= y
SetMax(S) == CHOOSE x \in S : \A y \in S : x >= y

RECURSIVE FirstSeen(_, _)
\* the keys of the pairs q in order of first appearance, after the keys `seen`
FirstSeen(q, seen) ==
    IF q = <<>> THEN seen
    ELSE FirstSeen(Tail(q),
                   IF \E i \in 1..Len(seen) : seen[i] = Head(q).k THEN seen
                   ELSE Append(seen, Head(q).k))

RECURSIVE Concat(_)
Concat(ds) == IF ds = <<>> THEN <<>> ELSE Head(ds) \o Concat(Tail(ds))

\* C1 as stated: the merged map holds, for every key, the record of the
\* earliest facet containing that key (first-write-wins).
C1_FirstWriteWins ==
    Merged =>
        \A k \in DictKeys(all) :
            DictGet(all, k) = DictGet(facetRes[SetMin(FacetsWith(k))], k)

\* C1 amended: first occurrence decides only where a key stands: a key present
\* in more than one facet is held once, at the place given by the earliest
\* facet containing it, and with the record of the latest facet containing it;
\* a later facet appends the keys not yet present and replaces the records of
\* the keys already present.
C1_FirstOccurrencePlaceLatestRecord ==
    Merged =>
        /\ KeyOrder(all) = FirstSeen(Concat(facetRes), <<>>)
        /\ \A k \in DictKeys(all) :
              Cardinality(FacetsWith(k)) > 1 =>
                  /\ Cardinality({i \in 1..Len(all) : all[i].k = k}) = 1
                  /\ DictGet(all, k) = DictGet(facetRes[SetMax(FacetsWith(k))], k)

\* C1 witness: the first facet delivered two keys and the second facet one of
\* them again (A = {1, 2}, B = {2, ...}), and the merge has run
C1_Witness ==
    /\ Merged
    /\ adapter = "github" /\ category = "pull_requests"
    /\ Len(facetRes[1]) = 2
    /\ facetRes[1][2].k \in DictKeys(facetRes[2])
    /\ facetRes[1][1].k \notin DictKeys(facetRes[2])

\* C2: the merge is last-write-wins: for every key the merged map holds the
\* record of the latest facet (in call order) containing that key.
C2_LastWriteWins ==
    Merged =>
        \A k \in DictKeys(all) :
            DictGet(all, k) = DictGet(facetRes[SetMax(FacetsWith(k))], k)

\* C2 witness: a key delivered by three facets of the GitLab merge requests,
\* the last of which is not the last facet called
C2_Witness ==
    /\ Merged
    /\ adapter = "gitlab" /\ category = "merge_requests"
    /\ \E k \in Keys : FacetsWith(k) = {1, 2, 3}

\* the keys every facet delivered
UnionOfFacetKeys == UNION {DictKeys(facetRes[i]) : i \in 1..Len(facetRes)}

\* C3: the merged key set is the union of the facets' key sets, every key is
\* held once, and the output list holds exactly one normalized record per key
\* of the merged map, in the map's order: nothing is twice in it, nothing is
\* dropped.
C3_OneRecordPerKey ==
    /\ Merged =>
          /\ DictKeys(all) = UnionOfFacetKeys
          /\ Cardinality(DictKeys(all)) = Len(all)
    /\ cpc \in {"normalize", "notes", "done"} =>
          /\ Len(out) <= Len(all)
          /\ Cardinality(DictKeys(all)) = Len(all)
          /\ \A i \in 1..Len(out) : out[i].id = NumberOf(all[i].k)
          /\ Len(out) = IF cpc = "done" THEN Len(all) ELSE ni - 1

\* C3 witness: a GitLab issue was delivered by all three facets, another by
\* one only, and the category returned two records
C3_Witness ==
    /\ cpc = "done"
    /\ adapter = "gitlab" /\ category = "issues"
    /\ Len(out) = 2
    /\ out[1].title = "closed"
    /\ out[2].title = "assigned"
    /\ Len(SelectSeq(reqs, LAMBDA r : r.kind = "list" /\ r.ok)) >= 3

\* map d merged with itself is d: the same keys in the same order, and the
\* same record for every key
SelfMergeIs(d) ==
    LET dd == Spread(<<d, d>>) IN
    /\ KeyOrder(dd) = KeyOrder(d)
    /\ \A k \in DictKeys(d) : DictGet(dd, k) = DictGet(d, k)
    /\ Len(dd) = Cardinality(DictKeys(d))

\* C27: the facet merge is idempotent: a facet's result map merged with
\* itself is that map, and the merged map of a category merged with itself
\* has the same keys, the same record for each key and the same order.
C27_MergeIdempotent ==
    Merged =>
        /\ \A f \in 1..Len(facetRes) : SelfMergeIs(facetRes[f])
        /\ SelfMergeIs(all)
        /\ Spread(<<all, all>>) = all
        /\ Spread(facetRes \o facetRes) = Spread(facetRes \o <<all>>)

\* C27 witness: the merge of facets of which one returned two records and
\* two returned the same record has run
C27_Witness ==
    /\ Merged
    /\ Len(all) = 2
    /\ \E f \in 1..Len(facetRes) : Len(facetRes[f]) = 2
    /\ \E f, g \in 1..Len(facetRes) :
          f # g /\ DictKeys(facetRes[f]) \cap DictKeys(facetRes[g]) # {}
    /\ Spread(<<all, all>>) = all

(***************************************************************************)
(* Properties of the paginator.                                            *)
(***************************************************************************)
NoRequestFailed == \A i \in 1..Len(reqs) : reqs[i].ok

\* the pages requested were 1, 2, ..., in that order
PagesInOrder == \A i \in 1..Len(reqs) : reqs[i].kind = "page" /\ reqs[i].n = i

CeilDiv(n, p) == (n + p - 1) \div p

RECURSIVE PagesBefore(_, _)
\* the items of pages 1..k-1 of collection c, concatenated
PagesBefore(c, k) ==
    IF k <= 1 THEN <<>> ELSE PagesBefore(c, k - 1) \o PageOf(c, k - 1)

\* C4 as stated: with no request errors the paginator issues exactly
\* ceil(N/P) page requests, then stops, and returns all N items in page order.
C4_CeilRequests ==
    (pstatus = "returned" /\ NoRequestFailed) =>
        /\ Len(reqs) = CeilDiv(Len(coll), per_page)
        /\ all_items = coll

\* C4 amended: with no request errors the paginator issues exactly
\* floor(N/P) + 1 page requests (pages 1, 2, ... in order), then stops, and
\* returns all N items in page order; that is ceil(N/P) only when N is not a
\* multiple of P (N = 0 included, where one empty page is still requested).
C4_FloorPlusOneRequests ==
    (pstatus = "returned" /\ NoRequestFailed) =>
        /\ Len(reqs) = Len(coll) \div per_page + 1
        /\ PagesInOrder
        /\ all_items = coll

\* C4 witness: a fetch of a non-empty exact multiple of the page size returned
C4_Witness ==
    /\ pstatus = "returned"
    /\ NoRequestFailed
    /\ Len(coll) = 2 * per_page
    /\ Len(reqs) = 3

\* C5: if the request for page k fails, the paginator has stopped (returned,
\* not raised), page k is the last request issued, and the result is exactly
\* the concatenation of pages 1..k-1 (empty when k = 1).
C5_ErrorReturnsAccumulated ==
    \A k \in 1..Len(reqs) :
        ~reqs[k].ok =>
            /\ pstatus = "returned"
            /\ Len(reqs) = k
            /\ PagesInOrder
            /\ all_items = PagesBefore(coll, k)

\* C5 witness: the third page failed after two full pages were accumulated
C5_Witness ==
    /\ pstatus = "returned"
    /\ Len(reqs) = 3
    /\ ~reqs[3].ok
    /\ Len(all_items) = 2 * per_page

\* the identifiers of a list of items, in the list's order
IdsOf(items) == [i \in 1..Len(items) |-> items[i].id]

\* the facet dict a step has just added to the facet results
NewFacet == facetRes'[Len(facetRes')]

\* the keys of NewFacet in the order in which `fetched` shows them
InFetchOrder(fetched) ==
    KeyOrder(NewFacet) =
        IdsOf(SelectSeq(fetched, LAMBDA it : it.id \in DictKeys(NewFacet)))

\* C15: the records of a category are output in the order of insertion into
\* the merged map: a facet's dict keeps the order in which its records were
\* fetched, the merged map orders the keys by the first facet that returned
\* them (whichever facet's copy it retains), and the output follows the map.
C15_InsertionOrder ==
    /\ [](Merged => KeyOrder(all) = FirstSeen(Concat(facetRes), <<>>))
    /\ [](cpc \in {"normalize", "notes", "done"} =>
             \A i \in 1..Len(out) : out[i].id = NumberOf(KeyOrder(all)[i]))
    /\ [][(Len(facetRes') = Len(facetRes) + 1) =>
             /\ cpc = "paging" => InFetchOrder(all_items)
             /\ cpc = "validate" => InFetchOrder(hits)]_vars

\* C15 witness: the first key of the output was returned by the first and
\* by the last facet, whose copy is the one retained, and the second key
\* came from a facet in between
C15_Witness ==
    /\ cpc = "done"
    /\ adapter = "gitlab" /\ category = "merge_requests"
    /\ Len(out) = 2
    /\ out[1].title = "closed"
    /\ out[2].title = "reviewed"
    /\ out[1].id = NumberOf(2)

(***************************************************************************)
(* Properties of the normalization loops.                                  *)
(***************************************************************************)
\* this step emits a record of the category
EmitsRecord == Len(out') = Len(out) + 1

\* the last request made for the record this step emits, which is its
\* comment fetch (GitHub) or the last page request of its notes (GitLab)
LastFetch == reqs'[Len(reqs')]

\* C14 as stated: when the comment / note fetch of a record fails, the record
\* is still emitted, with comments equal to the empty list, and the records
\* emitted before it are unaffected.
C14_FailedFetchEmptyComments ==
    [][EmitsRecord =>
          /\ SubSeq(out', 1, Len(out)) = out
          /\ out'[Len(out')].id = NumberOf(all[ni].k)
          /\ ~LastFetch.ok => out'[Len(out')].comments = <<>>]_vars

\* C14 amended: when the comment / note fetch of a record fails, the record
\* is still emitted and the records emitted before it are unaffected; its
\* comments are the empty list for GitHub, and for GitLab the notes of the
\* pages fetched before the page that failed (the empty list when the first
\* page failed).
C14_FailedFetchKeepsRecord ==
    [][EmitsRecord =>
          /\ SubSeq(out', 1, Len(out)) = out
          /\ out'[Len(out')].id = NumberOf(all[ni].k)
          /\ ni' = ni + 1
          /\ ~LastFetch.ok =>
                out'[Len(out')].comments =
                    IF adapter = "github" THEN <<>>
                    ELSE FormatNotes(PagesBefore(coll, LastFetch.n))]_vars

\* C14 witness: the second page of a GitLab record's notes failed, and the
\* record was emitted with the notes of the first page
C14_Witness ==
    /\ adapter = "gitlab"
    /\ cpc = "normalize"
    /\ Len(out) >= 1
    /\ Len(out[Len(out)].comments) = per_page
    /\ reqs[Len(reqs)].kind = "notes"
    /\ reqs[Len(reqs)].n = 2
    /\ ~reqs[Len(reqs)].ok

\* the lookups of kind `kind` made for the record with key k while the
\* running category was normalized, that failed
FailedLookups(kind, k) ==
    {i \in 1..Len(reqs) : /\ reqs[i].kind = kind /\ reqs[i].n = k
                          /\ reqs[i].category = category /\ reqs[i].facet = ""
                          /\ ~reqs[i].ok}

\* C25: a failing merge-detail request (GitHub) or project lookup (GitLab)
\* neither drops the record nor ends the category: the record is emitted,
\* with merged_at null or with repository "unknown", and when the category
\* function returns every merged record has been normalized.
C25_FailedLookupKeepsRecord ==
    /\ cpc = "done" => Len(out) = Len(all)
    /\ cpc \in {"normalize", "notes", "done"} =>
          \A i \in 1..Len(out) :
              /\ out[i].id = NumberOf(all[i].k)
              /\ FailedLookups("details", all[i].k) # {} => out[i].merged_at = NoTs
              /\ FailedLookups("project", all[i].k) # {} =>
                    out[i].repository = "unknown"

\* C25 witness: a GitLab category returned two records; the project lookup
\* of the first failed and that of the second did not
C25_Witness ==
    /\ adapter = "gitlab"
    /\ cpc = "done"
    /\ Len(out) = 2
    /\ FailedLookups("project", all[1].k) # {}
    /\ out[1].repository = "unknown"
    /\ FailedLookups("project", all[2].k) = {}
    /\ out[2].repository # "unknown"

(***************************************************************************)
(* Properties of process and of the main loop.                             *)
(***************************************************************************)
GitLabError == [error |-> "Could not retrieve user ID"]

\* C6: when the GitLab username-to-id lookup fails or finds no user, process
\* returns exactly the error payload, and the lookup is the only request of
\* the call: no facet query, page request or secondary lookup follows it.
C6_NoUserReturnsErrorPayload ==
    (adapter = "gitlab" /\ apc \notin {"idle", "start"} /\ user_id = 0) =>
        /\ apc = "returned"
        /\ result_json = JsonDumps(GitLabError)
        /\ Len(reqs) = 1
        /\ reqs[1].kind = "users"
        /\ cpc = "idle"
        /\ pstatus = "idle"

\* C6 witness: the lookup answered with an empty list and process returned
C6_Witness ==
    /\ adapter = "gitlab"
    /\ apc = "returned"
    /\ user_id = 0
    /\ Len(reqs) = 1
    /\ reqs[1].kind = "users"
    /\ reqs[1].ok

\* a section whose type is registered, whose required fields are present and
\* whose token does not name a file that cannot be read
WellFormed(cfg) ==
    /\ cfg.type \in PluginTypes
    /\ cfg.token # Absent
    /\ cfg.token # TokenDir
    /\ cfg.username # Absent
    /\ cfg.type = "jira" => cfg.url # Absent

\* the sections before section i that are well-formed
WellFormedBefore(i) == {j \in 1..Len(sections) : j < i /\ WellFormed(sections[j])}

\* C7: main never aborts because a section failed: the run only ever stops
\* after printing, every section is visited, and at every moment the results
\* hold one entry for each well-formed section already visited, whatever
\* failed in the sections between them.
C7_RunNeverAborts ==
    /\ mpc # "done" => ENABLED Next
    /\ si \in 1..(Len(sections) + 1)
    /\ Len(results) = Cardinality(WellFormedBefore(si))
    /\ mpc = "done" =>
          /\ si = Len(sections) + 1
          /\ stdout = <<JsonDumps(results)>>

\* C7 witness: the first section failed to parse, a request of the second
\* section failed, and the second section's report was printed
C7_Witness ==
    /\ mpc = "done"
    /\ Len(sections) = 2
    /\ sections[1].type \in PluginTypes
    /\ ~WellFormed(sections[1])
    /\ WellFormed(sections[2])
    /\ \E i \in 1..Len(reqs) : ~reqs[i].ok
    /\ Len(JsonLoads(stdout[1])) = 1

\* C8 as stated: the printed array holds exactly one report for each section
\* whose type is registered, in section order, and nothing else.
C8_OneReportPerRegisteredSection ==
    mpc = "done" =>
        LET registered == SelectSeq(sections, LAMBDA c : c.type \in PluginTypes)
            printed == JsonLoads(stdout[1])
        IN /\ Len(printed) = Len(registered)
           /\ \A i \in 1..Len(printed) :
                 /\ "source" \in DOMAIN printed[i]
                 /\ printed[i].source = registered[i].type

\* C8 amended: the printed array holds exactly one entry for each section
\* whose type is registered and whose configuration parsed, in section order,
\* and nothing else; the entry is the plugin's report, or GitLab's error
\* payload when the user lookup found no user.
C8_OneEntryPerParsedSection ==
    mpc = "done" =>
        LET parsed == SelectSeq(sections, WellFormed)
            printed == JsonLoads(stdout[1])
        IN /\ Len(printed) = Len(parsed)
           /\ \A i \in 1..Len(printed) :
                 \/ /\ "source" \in DOMAIN printed[i]
                    /\ printed[i].source = parsed[i].type
                 \/ /\ parsed[i].type = "gitlab"
                    /\ printed[i] = GitLabError

\* C8 witness: of two sections with a registered type the first failed to
\* parse and the second was reported
C8_Witness ==
    /\ mpc = "done"
    /\ Len(sections) = 2
    /\ sections[1].type = "gitlab" /\ ~WellFormed(sections[1])
    /\ sections[2].type = "jira" /\ WellFormed(sections[2])
    /\ Len(JsonLoads(stdout[1])) = 1
    /\ JsonLoads(stdout[1])[1].source = "jira"

\* C9: every report process returns, other than GitLab's error payload, has
\* exactly the fields source, user and activity, with source the plugin's
\* type and user the configured username.
C9_ReportFields ==
    (apc = "returned" /\ result_json # JsonDumps(GitLabError)) =>
        LET report == JsonLoads(result_json) IN
        /\ DOMAIN report = {"source", "user", "activity"}
        /\ report.source = adapter
        /\ report.user = plugins[adapter].username

\* the records of the report's activity, over all its categories, that show
\* the record with identifier k
RecordsOf(report, k) ==
    {<<c, i>> \in UNION {{c} \X (1..Len(report.activity[c])) : c \in DOMAIN report.activity} :
        report.activity[c][i].id = NumberOf(k)}

\* GitHub holds issue k among the issues the user created and among those the
\* user commented on, with a comment by the user inside the window
CreatedAndCommented(k) ==
    /\ \E i \in 1..Len(remote.issues["created"]) : remote.issues["created"][i].id = k
    /\ \E i \in 1..Len(remote.issues["commented"]) : remote.issues["commented"][i].id = k
    /\ \E c \in remote.threads :
          HasUserCommentInTimeframe(c, plugins["github"].username,
                                    since_date, until_date)

\* C10: when an issue is in both the created set and the validated
\* commented-on set, the report GitHub's process returns holds exactly one
\* record for that issue in its activity.
C10_OverlappingIssueOnce ==
    \A k \in 1..MaxKeys :
        (adapter = "github" /\ apc = "returned" /\ CreatedAndCommented(k)) =>
            Cardinality(RecordsOf(JsonLoads(result_json), k)) = 1

\* the keys of the issues of one answer of the Jira search
JiraKeys(issue_list) == {issue_list[i].key : i \in 1..Len(issue_list)}

\* the records of a Jira report's activity, over both of its lists, that
\* show the issue with key `key`
JiraRecordsOf(report, key) ==
    {<<c, i>> \in UNION {{c} \X (1..Len(report.activity[c])) : c \in DOMAIN report.activity} :
        report.activity[c][i].key = key}

\* C11: when Jira's process returns, an issue that both searches (closed by
\* the user, commented on by the user) delivered appears exactly once in the
\* report's activity.
C11_JiraIssueOnce ==
    [][(adapter = "jira" /\ apc = "fetch" /\ apc' = "returned") =>
          \A key \in JiraKeys(facetRes[1]) \cap JiraKeys(facetRes[2]) :
              Cardinality(JiraRecordsOf(JsonLoads(result_json'), key)) = 1]_vars

\* the positions of the request log that hold a user lookup
UserLookups == {i \in 1..Len(reqs) : reqs[i].kind = "users"}

\* C16: in a GitLab process run the user lookup is the first request, it is
\* issued exactly once, and any other request is issued only after the
\* lookup has returned a user.
C16_LookupFirstAndOnce ==
    (adapter = "gitlab" /\ reqs # <<>>) =>
        /\ UserLookups = {1}
        /\ Len(reqs) > 1 => (reqs[1].ok /\ user_id # 0)

\* C16 witness: a GitLab run has looked the user up and then paged through
\* all facets of both categories
C16_Witness ==
    /\ adapter = "gitlab"
    /\ apc = "merge_requests"
    /\ cpc = "done"
    /\ reqs[1].kind = "users"
    /\ reqs[1].ok
    /\ Len(reqs) >= 8

\* main is at a section whose type is registered and whose parse fails: a
\* required field is absent, or the token names a file that cannot be read
AtUnparsableSection ==
    /\ mpc = "loop"
    /\ si <= Len(sections)
    /\ Section.type \in PluginTypes
    /\ ~WellFormed(Section)

\* C17: when parse fails for a section, parse returns False, the plugin
\* takes no credential from that section, and main skips the section:
\* process is not called and no request is issued for it.
C17_FailedParseSkipsSection ==
    /\ [](AtUnparsableSection =>
             ~Parse(Section.type, plugins[Section.type], Section).ok)
    /\ [](mpc = "process" => WellFormed(Section))
    /\ [][AtUnparsableSection =>
             /\ si' = si + 1
             /\ mpc' = "loop"
             /\ apc' = "idle"
             /\ reqs' = reqs
             /\ results' = results
             /\ plugins'[Section.type].token = plugins[Section.type].token]_vars

\* C17 witness: the first section names a token file that cannot be read,
\* main has gone on to the second section, and nothing was requested
C17_Witness ==
    /\ Len(sections) = 2
    /\ sections[1].token = TokenDir
    /\ si = 2
    /\ mpc = "loop"
    /\ reqs = <<>>
    /\ results = <<>>
    /\ plugins["jira"].token = NoneStr

\* the facet queries of the request log, each as <<category, facet>>
FacetQueries ==
    LET q == SelectSeq(reqs, LAMBDA r : r.kind \in {"search", "list"})
    IN [i \in 1..Len(q) |-> <<q[i].category, q[i].facet>>]

RECURSIVE Collapse(_)
\* q without the repetitions of an element right after itself (the pages of
\* one facet's list)
Collapse(q) ==
    IF Len(q) <= 1 THEN q
    ELSE IF q[1] = q[2] THEN Collapse(Tail(q))
    ELSE <<q[1]>> \o Collapse(Tail(q))

IsPrefix(a, b) == Len(a) <= Len(b) /\ a = SubSeq(b, 1, Len(a))

\* the order in which the facets are documented to be queried
DocumentedOrder(ad) ==
    IF ad = "github"
    THEN <<<<"pull_requests", "commented">>, <<"pull_requests", "created">>,
           <<"pull_requests", "closed">>, <<"pull_requests", "reviewed">>>>
    ELSE <<<<"issues", "created">>, <<"issues", "assigned">>, <<"issues", "closed">>,
           <<"merge_requests", "created">>, <<"merge_requests", "assigned">>,
           <<"merge_requests", "reviewed">>, <<"merge_requests", "closed">>>>

\* request r is a normalization lookup: comments or notes, merge detail or
\* project metadata, asked for a merged record and not by a facet function
NormalizationLookup(r) ==
    r.facet = "" /\ r.kind \in {"comments", "notes", "details", "project"}

\* C19: within a process run of GitHub or GitLab the facets are queried one
\* after the other in the documented order, and no normalization lookup of a
\* category is issued before all facet queries of that category are over.
C19_FacetOrderAndPhases ==
    adapter \in {"github", "gitlab"} =>
        /\ IsPrefix(Collapse(FacetQueries), DocumentedOrder(adapter))
        /\ \A i, j \in 1..Len(reqs) :
              (i < j /\ NormalizationLookup(reqs[i]) /\ reqs[j].facet # "") =>
                  reqs[j].category # reqs[i].category
        /\ \A i \in 1..Len(reqs) :
              NormalizationLookup(reqs[i]) =>
                  \A f \in 1..Len(DocumentedOrder(adapter)) :
                      DocumentedOrder(adapter)[f][1] = reqs[i].category =>
                          \E j \in 1..(i - 1) :
                              /\ reqs[j].kind \in {"search", "list"}
                              /\ <<reqs[j].category, reqs[j].facet>> =
                                    DocumentedOrder(adapter)[f]

\* C19 witness: a GitLab run has queried the seven facets and looked up the
\* project of an issue and of a merge request
C19_Witness ==
    /\ adapter = "gitlab"
    /\ apc = "merge_requests"
    /\ cpc = "done"
    /\ Collapse(FacetQueries) = DocumentedOrder("gitlab")
    /\ \E i, j \in 1..Len(reqs) :
          /\ reqs[i].kind = "project" /\ reqs[i].category = "issues"
          /\ reqs[j].kind = "project" /\ reqs[j].category = "merge_requests"

\* the failed facet queries of facet f of category cat in the request log
FailedQueries(cat, f) ==
    {i \in 1..Len(reqs) : /\ reqs[i].kind \in {"search", "list"}
                          /\ reqs[i].category = cat
                          /\ reqs[i].facet = f
                          /\ ~reqs[i].ok}

\* a facet whose query failed contributed nothing (GitHub) or no more than
\* the pages before the failing one (GitLab), and the merged map holds the
\* keys of every facet
FailedFacetDegrades ==
    Merged =>
        /\ \A f \in 1..NumFacets :
              \A i \in FailedQueries(category, Facets(adapter, category)[f]) :
                  Len(facetRes[f]) <= (IF adapter = "gitlab"
                                       THEN (reqs[i].n - 1) * per_page ELSE 0)
        /\ DictKeys(all) = UnionOfFacetKeys

\* the list a category function returns holds one record per merged key
MergedRecordsListed ==
    cpc = "done" => IdsOf(out) = [i \in 1..Len(all) |-> NumberOf(all[i].k)]

\* process returns after having made a facet query
ReturnsAfterQueries ==
    /\ apc # "returned"
    /\ apc' = "returned"
    /\ \E i \in 1..Len(reqs) : reqs[i].kind \in {"search", "list"}

\* the report process returns is a normal one, every facet was queried, and
\* the report holds the lists the category functions returned
NormalReportOfAllFacets ==
    LET report == JsonLoads(result_json') IN
    /\ DOMAIN report = {"source", IF adapter = "jira" THEN "name" ELSE "user",
                        "activity"}
    /\ adapter = "github" =>
          /\ Collapse(FacetQueries) = DocumentedOrder("github")
          /\ report.activity.pull_requests = out
    /\ adapter = "gitlab" =>
          /\ Collapse(FacetQueries) = DocumentedOrder("gitlab")
          /\ report.activity.issues = issues
          /\ report.activity.merge_requests = out
    /\ adapter = "jira" =>
          /\ Len(reqs) = Len(issue_types)
          /\ \A i \in 1..Len(issue_types) :
                /\ reqs[i].kind = "search" /\ reqs[i].n = i
                /\ Len(report.activity[issue_types[i]]) = Len(facetRes[i])
                /\ ~reqs[i].ok => report.activity[issue_types[i]] = <<>>
                /\ \A j \in 1..Len(facetRes[i]) :
                      report.activity[issue_types[i]][j].key = facetRes[i][j].key

\* C20: once process has started its facet queries, every facet of every
\* category is queried even when an earlier facet's request failed; a failed
\* facet contributes an empty result (for a paginated list, the pages before
\* the failing one), the records of the other facets are in the report, and
\* process returns a normal report.
C20_FailedFacetDegradesToEmpty ==
    /\ [](FailedFacetDegrades /\ MergedRecordsListed)
    /\ [][(adapter = "gitlab" /\ apc = "issues" /\ apc' = "merge_requests") =>
             issues' = out]_vars
    /\ [][ReturnsAfterQueries => NormalReportOfAllFacets]_vars

\* C20 witness: GitHub's process has returned a report with a pull request
\* although the search of one facet failed, the searches after it were made
C20_Witness ==
    /\ adapter = "github"
    /\ apc = "returned"
    /\ \E i \in 1..Len(reqs) :
          /\ reqs[i].kind = "search" /\ ~reqs[i].ok
          /\ \E j \in (i + 1)..Len(reqs) : reqs[j].kind = "search" /\ reqs[j].ok
    /\ Len(JsonLoads(result_json).activity.pull_requests) > 0

\* requests a and b ask the same thing of the service
SameRequest(a, b) ==
    /\ a.kind = b.kind /\ a.n = b.n
    /\ a.category = b.category /\ a.facet = b.facet

\* b asks for a later page of the paginated fetch that a belongs to
LaterPage(a, b) ==
    /\ a.kind \in {"list", "notes", "page"}
    /\ a.kind = b.kind /\ a.category = b.category /\ a.facet = b.facet
    /\ b.n > a.n

\* the call whose request r was rate limited gives its caller no data
YieldsNoData(r) ==
    IF r.kind \in {"list", "notes", "page"}
    THEN all_items' = all_items /\ pstatus' = "returned"
    ELSE IF r.kind = "search"
    THEN facetRes' = Append(facetRes, <<>>)
    ELSE IF r.kind = "comments" /\ r.facet = "commented"
    THEN IF hi = Len(hits) THEN facetRes' = Append(facetRes, partial)
         ELSE partial' = partial
    ELSE IF r.kind = "comments" THEN out'[Len(out')].comments = <<>>
    ELSE IF r.kind = "details" THEN out'[Len(out')].merged_at = NoTs
    ELSE IF r.kind = "project" THEN repository' = "unknown"
    ELSE result_json' = JsonDumps(GitLabError)

\* C21: a rate-limited response triggers no retry: the request is not issued
\* again during the run, the call it belongs to yields no data, and no later
\* page of a paginated fetch is requested after a rate-limited page.
C21_RateLimitNoRetry ==
    /\ [](\A i, j \in 1..Len(reqs) :
            (i < j /\ reqs[i].limited) =>
                ~SameRequest(reqs[i], reqs[j]) /\ ~LaterPage(reqs[i], reqs[j]))
    /\ [][\A k \in (Len(reqs) + 1)..Len(reqs') :
             reqs'[k].limited => YieldsNoData(reqs'[k])]_vars

\* C21 witness: GitLab's process has returned after the first page of a
\* record's notes, which fill more than a page, was rate limited, and other
\* requests followed it
C21_Witness ==
    /\ adapter = "gitlab"
    /\ apc = "returned"
    /\ remote.notes = {ManyNotes}
    /\ \E i \in 1..(Len(reqs) - 1) :
          reqs[i].kind = "notes" /\ reqs[i].n = 1 /\ reqs[i].limited

\* t is q without the whitespace at its two ends
IsTrimmed(t, q) ==
    \E i \in 1..(Len(q) + 1), j \in 0..Len(q) :
        /\ t = SubSeq(q, i, j)
        /\ \A k \in 1..(i - 1) : q[k] \in Whitespace
        /\ \A k \in (j + 1)..Len(q) : q[k] \in Whitespace
        /\ t # <<>> => t[1] \notin Whitespace /\ t[Len(t)] \notin Whitespace

\* token is the credential that the configured value v stands for
CredentialOf(v, token) ==
    IF PathExists(v) THEN IsTrimmed(token, FileContents(v)) ELSE token = v

\* C22: the credential a successful parse fixes is the trimmed contents of
\* the file the token value names if that path exists, and the token value
\* itself otherwise; the instance keeps it for the whole of the process run
\* that follows, and every request of that run carries it.
C22_CredentialResolvedOnce ==
    mpc = "process" =>
        /\ CredentialOf(Section.token, plugins[adapter].token)
        /\ \A i \in 1..Len(reqs) : reqs[i].token = plugins[adapter].token

\* C22 witness: the section names a token file, process has returned, and
\* its requests carried the contents of the file without the blank and the
\* newline around them
C22_Witness ==
    /\ mpc = "process"
    /\ apc = "returned"
    /\ Section.token = TokenFile
    /\ FileContents(TokenFile) # <<"filetoken">>
    /\ Len(reqs) > 1
    /\ \A i \in 1..Len(reqs) : reqs[i].token = <<"filetoken">>

CountsAsMatch(c, user) ==
    /\ c.author = user
    /\ c.created_at.kind = "iso"
    /\ since_date <= c.created_at.day
    /\ c.created_at.day <= until_date

\* C12: the validator returns true if and only if some entry of the list is
\* by the given user and has a present, parseable timestamp whose day lies in
\* [since, until], boundaries included; entries without a usable timestamp
\* neither match nor end the scan, and the empty list gives false.
C12_ValidatorIffMatch ==
    fn_out.fn = "_has_user_comment_in_timeframe" =>
        (fn_out.value <=>
            \E i \in 1..Len(fn_in.comments) :
                CountsAsMatch(fn_in.comments[i], fn_in.username))

\* C12 witness: the first entry is by the user with a timestamp that does
\* not parse, the second is by the user on the last day of the window, and
\* the validator returned true
C12_Witness ==
    /\ fn_out.fn = "_has_user_comment_in_timeframe"
    /\ fn_out.value
    /\ Len(fn_in.comments) = 2
    /\ fn_in.comments[1] = Comment(<<"alice">>, BadTs)
    /\ fn_in.comments[2] = Comment(<<"alice">>, IsoTs(until_date))
    /\ since_date < until_date

\* what a date field shows for the source timestamp ts: null when ts is
\* absent, the DD-MM-YYYY HH:MM form when it parses, ts itself when it does not
DateFieldFor(ts) ==
    IF ts = NoTs THEN NoTs
    ELSE IF ts.kind = "iso" THEN [kind |-> "dmy", day |-> ts.day]
    ELSE ts

\* C13: every date field of an emitted record, the records' comments
\* included, is null for an absent source timestamp, DD-MM-YYYY HH:MM for one
\* that parses, and the raw source string for one that does not parse.
C13_DateFields ==
    /\ fn_out.fn = "_format_date" => fn_out.value = DateFieldFor(fn_in.date_str)
    /\ fn_out.fn = "to_dict" =>
          /\ fn_out.value.created = DateFieldFor(fn_in.issue.created)
          /\ \A i \in 1..Len(fn_in.issue.comments) :
                fn_out.value.comments[i].created =
                    DateFieldFor(fn_in.issue.comments[i].created_at)

\* C18: parse fails if and only if a required field is missing or the
\* token file cannot be read: GitHub and GitLab require token and username,
\* Jira requires url, token and username; no optional field is required, and
\* GitLab's base URL is the public endpoint when api_base_url is absent.
C18_ParseFailsIffRequiredMissing ==
    fn_out.fn = "parse" =>
        LET cfg == fn_in.config
            required == IF cfg.type = "jira" THEN {"url", "token", "username"}
                        ELSE {"token", "username"}
        IN /\ ~fn_out.value.ok <=>
                 \/ \E f \in required : cfg[f] = Absent
                 \/ cfg.token = TokenDir
           /\ (fn_out.value.ok /\ cfg.type = "gitlab" /\ cfg.api_base_url = Absent) =>
                 fn_out.value.inst.url = <<"https://gitlab.com", "/api/v4">>

\* C18 witness: a GitLab configuration with token and username and none of
\* the optional fields parsed, and the base URL is the public endpoint
C18_Witness ==
    /\ fn_out.fn = "parse"
    /\ fn_out.value.ok
    /\ fn_in.config.type = "gitlab"
    /\ fn_in.config.api_base_url = Absent
    /\ fn_in.config.project_id = Absent
    /\ fn_in.config.url = Absent
    /\ fn_out.value.inst.url = <<"https://gitlab.com", "/api/v4">>

\* the timestamp of `item` that the closed / merged facet of `cat` looks at
ClosingTimestamp(cat, item) ==
    IF cat = "issues" THEN item.closed_at ELSE item.merged_at

\* C23: the result of GitLab's closed-issues facet holds a fetched record
\* only if its closed_at is present, parses and dates inside [since, until],
\* both ends included, and that of the closed / merged merge-request facet
\* only if its merged_at does; a fetched record whose timestamp is missing,
\* unparsable or outside the window is not in the result.
C23_ClosedFacetWindowFilter ==
    fn_out.fn = "closed_facet" =>
        LET d == fn_out.value
            items == fn_in.items
        IN /\ \A i \in 1..Len(d) :
                 LET ts == ClosingTimestamp(fn_in.category, d[i].v) IN
                 /\ \E j \in 1..Len(items) : items[j] = d[i].v /\ d[i].k = items[j].id
                 /\ ts.kind = "iso"
                 /\ since_date <= ts.day /\ ts.day <= until_date
           /\ \A j \in 1..Len(items) :
                 LET ts == ClosingTimestamp(fn_in.category, items[j]) IN
                 (\/ ts.kind \in {"none", "bad"}
                  \/ ts.kind = "iso" /\ (ts.day < since_date \/ ts.day > until_date))
                     => items[j].id \notin DictKeys(d)

\* C23 witness: the merged facet was given a merge request merged on the
\* last day of the window and one with an unparsable merged_at, and kept the
\* first alone
C23_Witness ==
    /\ fn_out.fn = "closed_facet"
    /\ fn_in.category = "merge_requests"
    /\ Len(fn_in.items) = 2
    /\ fn_in.items[1].merged_at = BadTs
    /\ fn_in.items[2].merged_at = IsoTs(until_date)
    /\ since_date < until_date
    /\ KeyOrder(fn_out.value) = <<fn_in.items[2].id>>

\* the comment list holds a comment by `user` dated inside [since, until]
CommentedInWindow(comments, user) ==
    \E i \in 1..Len(comments) :
        /\ comments[i].author = user
        /\ comments[i].created_at.kind = "iso"
        /\ since_date <= comments[i].created_at.day
        /\ comments[i].created_at.day <= until_date

\* C24: every record of the result of a GitHub commented-on facet (issues or
\* pull requests) is a search hit whose fetched comments hold a comment by
\* the configured user dated inside [since, until]; a hit whose comment
\* fetch failed or delivered an empty list is not in the result.
C24_CommentedFacetValidated ==
    fn_out.fn = "commented_facet" =>
        LET d == fn_out.value
            user == plugins["github"].username
        IN /\ \A i \in 1..Len(d) :
                 \E j \in 1..Len(fn_in.hits) :
                     /\ fn_in.hits[j] = d[i].v
                     /\ d[i].k = fn_in.hits[j].id
                     /\ fn_in.fetched[j].ok
                     /\ CommentedInWindow(fn_in.fetched[j].body, user)
           /\ \A j \in 1..Len(fn_in.hits) :
                 (~fn_in.fetched[j].ok \/ fn_in.fetched[j].body = <<>>)
                     => fn_in.hits[j].id \notin DictKeys(d)

\* C24 witness: of two hits the first one's comment fetch failed and the
\* second one's comments hold the user's comment inside the window; the
\* result holds the second hit alone
C24_Witness ==
    /\ fn_out.fn = "commented_facet"
    /\ Len(fn_in.hits) = 2
    /\ ~fn_in.fetched[1].ok
    /\ fn_in.fetched[2].ok
    /\ CommentedInWindow(fn_in.fetched[2].body, plugins["github"].username)
    /\ KeyOrder(fn_out.value) = <<fn_in.hits[2].id>>


(***************************************************************************)
(* Properties of the note normalization of GitLab.                         *)
(***************************************************************************)
\* the positions of the notes of notes_raw that the system did not write
UserNotePositions(notes_raw) == {i \in 1..Len(notes_raw) : ~notes_raw[i].system}

\* the position in notes_raw of its j-th note the system did not write
UserNotePosition(notes_raw, j) ==
    CHOOSE i \in UserNotePositions(notes_raw) :
        Cardinality({k \in UserNotePositions(notes_raw) : k <= i}) = j

\* C28: the comments _format_notes emits are the fetched notes whose system
\* flag is not set, in the order they were fetched, each as a record of
\* exactly author, created_at and body; no note of the system is emitted and
\* no other note is left out.
C28_SystemNotesExcluded ==
    fn_out.fn = "_format_notes" =>
        LET raw == fn_in.notes_raw
            comments == fn_out.value
        IN /\ Len(comments) = Cardinality(UserNotePositions(raw))
           /\ \A j \in 1..Len(comments) :
                 LET note == raw[UserNotePosition(raw, j)]
                 IN /\ DOMAIN comments[j] = {"author", "created_at", "body"}
                    /\ comments[j].author = note.author
                    /\ comments[j].created_at = DateFieldFor(note.created_at)
                    /\ comments[j].body = note.body

\* C28 witness: a note of the system followed by a note of a user was
\* normalized, and the one comment emitted is the user's
C28_Witness ==
    /\ fn_out.fn = "_format_notes"
    /\ Len(fn_in.notes_raw) = 2
    /\ fn_in.notes_raw[1].system /\ fn_in.notes_raw[1].body = <<"first">>
    /\ ~fn_in.notes_raw[2].system /\ fn_in.notes_raw[2].body = <<"second">>
    /\ Len(fn_out.value) = 1
    /\ fn_out.value[1].body = <<"second">>

(***************************************************************************)
(* Properties of the reuse of the plugin instances.                        *)
(***************************************************************************)
\* the base URL the section c configures on its own: the fixed one for
\* GitHub, the api_base_url without trailing slashes and with /api/v4 or the
\* default for GitLab, the url without trailing slashes for Jira
BaseUrlOf(c) ==
    IF c.type = "github" THEN <<"https://api.github.com">>
    ELSE IF c.type = "gitlab"
         THEN IF c.api_base_url = Absent THEN <<"https://gitlab.com", "/api/v4">>
              ELSE Rstrip(c.api_base_url, {"/"}) \o <<"/api/v4">>
    ELSE Rstrip(c.url, {"/"})

\* the identity the instance or the request x carries is the one the section
\* c configures
IdentityOf(c, x) ==
    /\ CredentialOf(c.token, x.token)
    /\ x.username = c.username
    /\ x.url = BaseUrlOf(c)

\* C29: the one instance per type is parsed anew for every section, and a
\* successful parse overwrites token, username and base URL: while process
\* runs for a section, the instance and every request of the run carry the
\* token, the username and the base URL of that section, whatever the
\* sections before it configured.
C29_SectionUsesOwnConfiguration ==
    mpc = "process" =>
        /\ IdentityOf(Section, plugins[adapter])
        /\ \A i \in 1..Len(reqs) : IdentityOf(Section, reqs[i])

\* C29 witness: a GitLab section with a token file and a custom base URL was
\* processed, and the requests of the GitLab section after it, which has
\* another token and user and no base URL, go to the default base URL with
\* its own token and user
C29_Witness ==
    /\ mpc = "process"
    /\ si = 2
    /\ Len(results) = 1
    /\ sections[1].type = "gitlab" /\ sections[2].type = "gitlab"
    /\ sections[1].api_base_url # Absent /\ sections[2].api_base_url = Absent
    /\ sections[1].token = TokenFile /\ sections[2].token = <<"tok2">>
    /\ sections[1].username # sections[2].username
    /\ Len(reqs) > 1
    /\ \A i \in 1..Len(reqs) :
          /\ reqs[i].url = <<"https://gitlab.com", "/api/v4">>
          /\ reqs[i].token = <<"tok2">>
          /\ reqs[i].username = <<"bob">>

\* the fields of a plugin instance that say whom it acts for and where
IdentityFields == {"token", "username", "url", "owner", "repo", "project_id"}

\* the fields the parse of a section of type t requires
RequiredFields(t) ==
    IF t = "jira" THEN {"url", "token", "username"} ELSE {"token", "username"}

\* C30: a parse that fails because a required field is missing leaves token,
\* username, base URL, owner, repo and project_id of the instance as they
\* were before the call; the stored config is the one field that changes.
C30_FailedParseKeepsIdentity ==
    (/\ fn_out.fn = "parse"
     /\ \E f \in RequiredFields(fn_in.config.type) : fn_in.config[f] = Absent) =>
        /\ ~fn_out.value.ok
        /\ \A f \in IdentityFields : fn_out.value.inst[f] = fn_in.inst[f]
        /\ fn_out.value.inst.config = fn_in.config
        /\ DOMAIN fn_out.value.inst = IdentityFields \cup {"config"}

\* C30 witness: the Jira plugin that an earlier section configured was given
\* a section with another url and another token and no username; the parse
\* failed and the plugin still has the url, the token and the user of the
\* earlier section
C30_Witness ==
    /\ fn_out.fn = "parse"
    /\ fn_in.config.type = "jira"
    /\ fn_in.inst = UsedPlugin("jira")
    /\ fn_in.config.username = Absent
    /\ fn_in.config.url = <<"https://jira.example", "/">>
    /\ fn_in.config.token = <<"tok">>
    /\ ~fn_out.value.ok
    /\ fn_out.value.inst.url = <<"https://old.example">>
    /\ fn_out.value.inst.token = <<"oldtok">>
    /\ fn_out.value.inst.username = <<"bob">>
    /\ fn_out.value.inst.config # fn_in.inst.config

=========================================================================
